---- MODULE Spec2Model ----
(***************************************************************************)
(* Model of the out-of-core raster engine of ortho_processor:              *)
(*   - VegetationIndicesCalculator (vegetation_indices.py): the global     *)
(*     statistics pass, the per-file, per-band normalization pass, the     *)
(*     merge of the band rasters and the index pass of process_files;      *)
(*   - VegetationThresholder (thresholding.py): create_thematic_maps,      *)
(*     _create_zone_map, calculate_zone_statistics and the dialogue of     *)
(*     _get_zone_thresholds;                                               *)
(*   - OrthoProcessor (main_processor.py): run_interactive_workflow;       *)
(*   - OrthoDownloader (downloader.py): load_urls_from_file and            *)
(*     _download_with_resume.                                              *)
(* Spec is process_files up to the merge step, SpecRun the whole of it,    *)
(* SpecOnce its first call on an empty directory, SpecReruns calls with a  *)
(* growing list of inputs, SpecCrash the normalization with failures,      *)
(* SpecMerge and SpecIndices the merge step and _calculate_indices on      *)
(* inputs of their own, SpecZone the thresholder, SpecPasses the three     *)
(* window loops side by side, SpecReport the zone statistics,              *)
(* SpecWorkflow the stages of the workflow, SpecDialogue the entry of a    *)
(* zone's conditions, SpecUrls the file of URLs, SpecDownload one          *)
(* transfer.                                                               *)
(* A raster is a sequence of pixels in block order; a window is a run of   *)
(* `block` consecutive pixels (the last one may be shorter).               *)
(***************************************************************************)
EXTENDS Integers, Sequences, FiniteSets, TLC

\* ------------------------------------------------------------------ bounds
MaxFiles == 2      \* input files handed to process_files
MaxPix == 2        \* pixels of one input raster
MaxZones == 2      \* zones of the thresholds handed to create_thematic_maps
MaxConds == 2      \* conditions of one zone
MaxLines == 4      \* lines of a file of URLs
MaxBytes == 3      \* bytes of a remote file

\* ------------------------------------------------------- program constants
Saturation == 65535     \* upper end of the valid interval and of the target range
PosInf == 65536         \* float("inf"): above every 16-bit sample
NegInf == 0 - 1         \* float("-inf"): below every 16-bit sample
TwoP16 == 65536
TwoP23 == 8388608
TwoP24 == 16777216

\* -------------------------------------------------------------- utilities
SetMin(S) == CHOOSE x \in S : \A y \in S : x <= y
SetMax(S) == CHOOSE x \in S : \A y \in S : x >= y
PyMin(a, b) == IF b < a THEN b ELSE a
PyMax(a, b) == IF b > a THEN b ELSE a
RECURSIVE Pow2(_)
Pow2(n) == IF n = 0 THEN 1 ELSE 2 * Pow2(n - 1)

\* ------------------------------------------------------------------ inputs
\* Source pixels, one sample per source band 1..4.  Input rasters are the
\* runs of 1..MaxPix consecutive pixels of this cycle, cut into blocks of
\* 1..length pixels.
BasePixels == << <<1, 0, 32767, 65535>>,
                 <<65534, 1, 1, 32767>>,
                 <<32767, 65535, 0, 2>> >>

NoFile == [exists |-> FALSE, pix |-> << >>, block |-> 1]

Raster(start, n) ==
    [k \in 1..n |-> BasePixels[((start + k - 2) % Len(BasePixels)) + 1]]

FileChoices == {NoFile} \cup
    { [exists |-> TRUE, pix |-> Raster(snb[1], snb[2]), block |-> snb[3]] :
        snb \in { t \in (1..Len(BasePixels)) \X (1..MaxPix) \X (1..MaxPix) :
                     t[3] <= t[2] } }

FileLists == UNION { [1..n -> FileChoices] : n \in 0..MaxFiles }

BandNames == {"red", "green", "blue", "nir"}

\* ----------------------------------------------------------- block windows
\* src.block_windows(1): the windows of a raster, in order.
NumWindows(f) == (Len(f.pix) + f.block - 1) \div f.block
\* mutant: every window but the first starts one pixel early
WinLoOverlap(f, w) == IF w = 1 THEN 1 ELSE (w - 1) * f.block

WinLo(f, w) == (w - 1) * f.block + 1
WinHi(f, w) == IF w * f.block < Len(f.pix) THEN w * f.block ELSE Len(f.pix)
\* src.read(band, window=window)
ReadWindow(f, band, w) ==
    [k \in 1..(WinHi(f, w) - WinLo(f, w) + 1) |-> f.pix[WinLo(f, w) + k - 1][band]]

VARIABLES files, pc, fi, wi, bi, global_stats, work, band_files,
          normalized_values,
          written      \* history: the outputs opened for writing in this run

pipeVars == <<files, pc, fi, wi, bi, global_stats, work, band_files,
              normalized_values, written>>

VARIABLES indices_paths, zone_name, conditions, zpc, zw, thematic_maps,
          zone_map

zoneVars == <<indices_paths, zone_name, conditions, zpc, zw, thematic_maps,
              zone_map>>

VARIABLES merged,         \* the files merged_<band>.tif of the work directory
          merged_bands,   \* the keys of the dictionary merged_bands
          mosaic,         \* the array returned by merge(src_files)
          mb,             \* position of the loop over band_files.items()
          indices,        \* the seven index rasters and the composite
          divided         \* history: the divisions evaluated for the last window

calcVars == <<merged, merged_bands, mosaic, mb, indices, divided>>

\* calculate_zone_statistics (thresholding.py)
VARIABLES map_files,      \* the files <zone_name>_map.tif of the output directory
          zi,             \* position of the loop over thematic_maps.items()
          zone_stats,     \* the dictionary zone_stats
          spc

reportVars == <<map_files, zi, zone_stats, spc>>

\* run_interactive_workflow (main_processor.py)
VARIABLES wpc,            \* the stage that is running
          unit,           \* the input of the stage that is processed next
          config,         \* the dictionary config of the run
          completed,      \* the outputs completed so far, as <<stage, unit>>
          trace,          \* history: the stages started, in order
          raised          \* the exception in flight or handled, with its stage

flowVars == <<wpc, unit, config, completed, trace, raised>>

\* _get_zone_thresholds (thresholding.py); its list is the variable conditions
VARIABLES stats,          \* the keys of the dictionary stats
          dpc,            \* the prompt the dialogue waits at
          pending,        \* index_name and operator of the condition being entered
          result          \* the value returned to get_user_thresholds

dialogVars == <<stats, dpc, pending, result>>

\* load_urls_from_file (downloader.py)
VARIABLES lines,          \* the lines of the file urls_file
          li,             \* position of `for line in f`
          urls_data, current_dept, current_band,
          upc

urlVars == <<lines, li, urls_data, current_dept, current_band, upc>>

\* _download_with_resume (downloader.py)
VARIABLES remote,         \* the file behind url, as the server holds it
          local,          \* the file file_path
          dlpc,
          file_exists, downloaded, total_size,
          response,       \* the answer to requests.get and what is left of its body
          requested       \* history: requests.get was called

dlVars == <<remote, local, dlpc, file_exists, downloaded, total_size, response,
            requested>>

sideVars == <<reportVars, flowVars, dialogVars, urlVars, dlVars>>

vars == <<pipeVars, calcVars, zoneVars, sideVars>>

\* ------------------------------------------------- _calculate_global_stats
\* mutant: the accumulator starts at 0 instead of the infinities
EmptyStatsZero == [b \in BandNames |-> [min |-> 0, max |-> 0]]

EmptyStats == [b \in BandNames |-> [min |-> PosInf, max |-> NegInf]]

\* mutant: the statistics of bands 1 and 2 are filed under each other's name
StatsBandNamesSwapped == <<"red", "nir", "green", "blue">>

\* band_names = ["nir", "red", "green", "blue"], zipped with bands 1..4
StatsBandNames == <<"nir", "red", "green", "blue">>

\* mutant: the lower end of the interval is closed
StatsValidClosed(v) == v >= 0 /\ v < Saturation

\* valid_mask = (band_data > 0) & (band_data < 65535)
StatsValid(v) == v > 0 /\ v < Saturation

\* mutant: the window's min and max replace the running ones
FoldBandLast(st, band_data) ==
    LET valid == { band_data[k] : k \in { j \in DOMAIN band_data : StatsValid(band_data[j]) } }
    IN  IF Cardinality(valid) > 0
        THEN [min |-> SetMin(valid), max |-> SetMax(valid)]
        ELSE st

\* mutant: only the first window with valid pixels is folded
FoldBandFirst(st, band_data) ==
    LET valid == { band_data[k] : k \in { j \in DOMAIN band_data : StatsValid(band_data[j]) } }
    IN  IF Cardinality(valid) > 0 /\ st.min = PosInf
        THEN [min |-> SetMin(valid), max |-> SetMax(valid)]
        ELSE st

\* the fold of one window's band into the running {min, max}
FoldBand(st, band_data) ==
    LET valid == { band_data[k] : k \in { j \in DOMAIN band_data : StatsValid(band_data[j]) } }
    IN  IF Cardinality(valid) > 0
        THEN [min |-> PyMin(st.min, SetMin(valid)),
              max |-> PyMax(st.max, SetMax(valid))]
        ELSE st

FoldWindow(gs, f, w) ==
    [b \in BandNames |->
        LET i == CHOOSE j \in 1..4 : StatsBandNames[j] = b
        IN  FoldBand(gs[b], ReadWindow(f, i, w))]

\* for filepath in files: if not os.path.exists(filepath): continue
StatsSkipFile ==
    /\ pc = "stats"
    /\ fi <= Len(files)
    /\ ~files[fi].exists
    /\ fi' = fi + 1
    /\ UNCHANGED <<files, pc, wi, bi, global_stats, work, band_files,
                   normalized_values, written, calcVars, zoneVars, sideVars>>

\* one iteration of `for ji, window in src.block_windows(1)`
StatsWindow ==
    /\ pc = "stats"
    /\ fi <= Len(files)
    /\ files[fi].exists
    /\ global_stats' = FoldWindow(global_stats, files[fi], wi)
    /\ IF wi < NumWindows(files[fi])
       THEN wi' = wi + 1 /\ fi' = fi
       ELSE wi' = 1 /\ fi' = fi + 1
    /\ UNCHANGED <<files, pc, bi, work, band_files, normalized_values, written, calcVars, zoneVars, sideVars>>

\* return global_stats; process_files then enters _extract_and_merge_bands
StatsReturn ==
    /\ pc = "stats"
    /\ fi > Len(files)
    /\ pc' = "normalize"
    /\ fi' = 1 /\ wi' = 1 /\ bi' = 1
    /\ band_files' = [b \in BandNames |-> << >>]
    /\ UNCHANGED <<files, global_stats, work, normalized_values, written, calcVars, zoneVars, sideVars>>

\* ------------------------------------------------ single-precision floats
\* A float32 value is neg * m * 2^e with m = 0 or 2^23 <= m < 2^24; every
\* operation rounds to nearest, ties to even, as numpy's float32 does.
F32Zero == [neg |-> FALSE, m |-> 0, e |-> 0]
\* x / 0 is an infinity and 0 / 0 a NaN (numpy warns, it does not raise);
\* both carry the exponent 128
F32Inf(neg) == [neg |-> neg, m |-> TwoP23, e |-> 128]
F32NaN == [neg |-> FALSE, m |-> TwoP23 + 1, e |-> 128]

F32Round(neg, m0, e0, guard, sticky) ==
    LET up == guard = 1 /\ (sticky \/ m0 % 2 = 1)
        m1 == IF up THEN m0 + 1 ELSE m0
    IN  IF m1 = TwoP24 THEN [neg |-> neg, m |-> TwoP23, e |-> e0 + 1]
        ELSE [neg |-> neg, m |-> m1, e |-> e0]

\* long division: n / b = (q + r / b) * 2^e, carried on until q has 25 bits
RECURSIVE DivLoop(_, _, _, _)
DivLoop(q, r, b, e) ==
    IF q >= TwoP24 THEN [q |-> q, r |-> r, e |-> e]
    ELSE IF 2 * r >= b THEN DivLoop(2 * q + 1, 2 * r - b, b, e - 1)
         ELSE DivLoop(2 * q, 2 * r, b, e - 1)

\* float32(a) / b for integers a and b >= 0 (both exact in float32)
F32Div(a, b) ==
    LET n == IF a < 0 THEN 0 - a ELSE a
        d == DivLoop(n \div b, n % b, b, 0)
    IN  IF b = 0 THEN (IF n = 0 THEN F32NaN ELSE F32Inf(a < 0))
        ELSE IF n = 0 THEN F32Zero
        ELSE F32Round(a < 0, d.q \div 2, d.e + 1, d.q % 2, d.r # 0)

\* x * 65535: the exact product m * 65535 = hi * 2^16 + lo, then rounded
F32MulSaturation(x) ==
    LET mh == x.m \div TwoP16
        ml == x.m % TwoP16
        hi == IF ml = 0 THEN x.m - mh ELSE x.m - mh - 1
        lo == IF ml = 0 THEN 0 ELSE TwoP16 - ml
    IN  IF x.m = 0 THEN F32Zero
        ELSE IF x.e = 128 THEN x
        ELSE IF hi >= TwoP23
             THEN F32Round(x.neg, hi, x.e + 16,
                           lo \div 32768, lo % 32768 # 0)
             ELSE F32Round(x.neg, 2 * hi + lo \div 32768, x.e + 15,
                           (lo % 32768) \div 16384, lo % 16384 # 0)

\* the exact value M * 2^e (M below 2^31; with `sticky`, a little more than
\* that), rounded to 24 bits
RECURSIVE F32ShiftDown(_, _, _, _, _)
F32ShiftDown(neg, M, e, guard, sticky) ==
    IF M >= TwoP24
    THEN F32ShiftDown(neg, M \div 2, e + 1, M % 2, sticky \/ guard = 1)
    ELSE F32Round(neg, M, e, guard, sticky)

RECURSIVE F32ShiftUp(_, _, _)
F32ShiftUp(neg, M, e) ==
    IF M < TwoP23 THEN F32ShiftUp(neg, 2 * M, e - 1)
    ELSE [neg |-> neg, m |-> M, e |-> e]

F32Pack(neg, M, e, sticky) ==
    IF M = 0 THEN F32Zero
    ELSE IF M < TwoP23 THEN F32ShiftUp(neg, M, e)
    ELSE F32ShiftDown(neg, M, e, 0, sticky)

F32Neg(x) == IF x.m = 0 THEN x ELSE [x EXCEPT !.neg = ~x.neg]
F32Abs(x) == [x EXCEPT !.neg = FALSE]

\* x + y: the smaller operand is aligned on the larger one, six bits below
\* its last place, and what is shifted out is kept as the sticky bit
F32Add(x, y) ==
    IF x.m = 0 THEN y
    ELSE IF y.m = 0 THEN x
    ELSE LET big == x.e > y.e \/ (x.e = y.e /\ x.m >= y.m)
             hi == IF big THEN x ELSE y
             lo == IF big THEN y ELSE x
             d == hi.e - lo.e
             X == hi.m * 64
             Y == IF d <= 6 THEN lo.m * Pow2(6 - d)
                  ELSE IF d >= 31 THEN 0
                  ELSE (lo.m * 64) \div Pow2(d)
             sticky == IF d <= 6 THEN FALSE
                       ELSE IF d >= 31 THEN TRUE
                       ELSE (lo.m * 64) % Pow2(d) # 0
             M == IF hi.neg = lo.neg THEN X + Y
                  ELSE IF sticky THEN X - Y - 1
                  ELSE X - Y
         IN  F32Pack(hi.neg, M, hi.e - 6, sticky)

F32Sub(x, y) == F32Add(x, F32Neg(y))

\* x * y: the exact 48-bit product hi * 2^24 + lo from 12-bit halves
F32Mul(x, y) ==
    LET xh == x.m \div 4096
        xl == x.m % 4096
        yh == y.m \div 4096
        yl == y.m % 4096
        mid == xh * yl + xl * yh
        low == xl * yl + (mid % 4096) * 4096
        hi == xh * yh + mid \div 4096 + low \div TwoP24
        lo == low % TwoP24
        neg == x.neg # y.neg
    IN  IF x.m = 0 \/ y.m = 0 THEN F32Zero
        ELSE IF hi >= TwoP23
             THEN F32Round(neg, hi, x.e + y.e + 24, lo \div TwoP23, lo % TwoP23 # 0)
             ELSE F32Round(neg, 2 * hi + lo \div TwoP23, x.e + y.e + 23,
                           (lo % TwoP23) \div 4194304, lo % 4194304 # 0)

\* x / y for floats; x / 0 is an infinity and 0 / 0 a NaN
F32DivF(x, y) ==
    LET d == DivLoop(x.m \div y.m, x.m % y.m, y.m, 0)
    IN  IF y.m = 0 THEN (IF x.m = 0 THEN F32NaN ELSE F32Inf(x.neg # y.neg))
        ELSE IF x.m = 0 THEN F32Zero
        ELSE F32Round(x.neg # y.neg, d.q \div 2, d.e + 1 + x.e - y.e,
                      d.q % 2, d.r # 0)

F32IsFinite(x) == x.e # 128

\* the integer part of |x| (x below 2^24)
F32Trunc(x) ==
    IF x.m = 0 \/ x.e < 0 - 24 THEN 0
    ELSE IF x.e >= 0 THEN x.m
    ELSE x.m \div Pow2(0 - x.e)

\* x is an integer
F32IsInt(x) ==
    x.m = 0 \/ x.e >= 0 \/ (x.e >= 0 - 24 /\ x.m % Pow2(0 - x.e) = 0)

\* .astype(np.uint16): truncation toward zero where the value fits.  The
\* conversion of a value that does not fit is undefined in C: the builds
\* wrap it modulo 2^16 or saturate it to 0 or 65535.
AsUint16(x) ==
    LET wrapped == IF x.e >= 0 THEN 0 ELSE F32Trunc(x) % TwoP16
    IN  IF x.m = 0 THEN {0}
        ELSE IF x.neg
             THEN (IF F32Trunc(x) = 0 THEN {0}
                   ELSE {(TwoP16 - wrapped) % TwoP16, 0, Saturation})
        ELSE IF x.e <= 0 - 8 THEN {F32Trunc(x)}
        ELSE {wrapped, 0, Saturation}

\* ------------------------------------------------ _extract_normalize_band
\* mutant: the first two bands are exchanged
BandMappingSwapped == <<"red", "nir", "green", "blue">>

\* band_mapping = {1: "nir", 2: "red", 3: "green", 4: "blue"}
BandMapping == <<"nir", "red", "green", "blue">>

\* mutant: the lower end of the interval is closed
NormValidClosed(v) == v >= 0 /\ v < Saturation

\* valid_mask = (block > 0) & (block < 65535)
NormValid(v) == v > 0 /\ v < Saturation

\* (block[valid_mask] - min_val) / (max_val - min_val) * 65535
Rescale(v, min_val, max_val) ==
    F32MulSaturation(F32Div(v - min_val, max_val - min_val))

\* a path with no file.  A file on disk has its pixels (data); nwin and hits
\* count the windows written and, per pixel, the writes received since the
\* file was created.
AbsentFile == [exists |-> FALSE, data |-> << >>, nwin |-> 0, hits |-> << >>]

\* rasterio.open(output_path, "w", **profile): a raster of the source's size
CreatedFile(f) ==
    [exists |-> TRUE, data |-> [k \in 1..Len(f.pix) |-> 0], nwin |-> 0,
     hits |-> [k \in 1..Len(f.pix) |-> 0]]

\* normalized_values, as floats, of the valid pixels of one window
NormalizedValues(block, min_val, max_val) ==
    [k \in { j \in DOMAIN block : NormValid(block[j]) } |->
        Rescale(block[k], min_val, max_val)]

\* mutant: equal min and max pass the guard
NonDegenerateLoose(min_val, max_val) == max_val >= min_val

\* if max_val > min_val
NonDegenerate(min_val, max_val) == max_val > min_val

\* the blocks dst.write may receive for one window
NormalizedBlocks(block, min_val, max_val) ==
    IF NonDegenerate(min_val, max_val)
    THEN LET nv == NormalizedValues(block, min_val, max_val)
             out(k) == IF k \in DOMAIN nv THEN AsUint16(nv[k]) ELSE {0}
         IN  { nb \in [DOMAIN block -> UNION { out(k) : k \in DOMAIN block }] :
                 \A k \in DOMAIN block : nb[k] \in out(k) }
    ELSE { [k \in DOMAIN block |-> 0] }

\* dst.write(block, 1, window=window)
WriteWindow(out, f, w, nb) ==
    [out EXCEPT !.data = [k \in DOMAIN out.data |->
                            IF k >= WinLo(f, w) /\ k <= WinHi(f, w)
                            THEN nb[k - WinLo(f, w) + 1] ELSE out.data[k]],
                !.nwin = out.nwin + 1,
                !.hits = [k \in DOMAIN out.hits |->
                            IF k >= WinLo(f, w) /\ k <= WinHi(f, w)
                            THEN out.hits[k] + 1 ELSE out.hits[k]]]

\* for filepath in files: if not os.path.exists(filepath): continue
NormSkipFile ==
    /\ pc = "normalize"
    /\ fi <= Len(files)
    /\ ~files[fi].exists
    /\ fi' = fi + 1
    /\ UNCHANGED <<files, pc, wi, bi, global_stats, work, band_files,
                   normalized_values, written, calcVars, zoneVars, sideVars>>

\* the band loop's step to the next band, or to the next file
NextBand ==
    IF bi < Len(BandMapping) THEN bi' = bi + 1 /\ fi' = fi
    ELSE bi' = 1 /\ fi' = fi + 1

\* if not output_path.exists() is false: the file is only listed
NormSkipExisting ==
    /\ pc = "normalize"
    /\ fi <= Len(files)
    /\ files[fi].exists
    /\ work[fi][BandMapping[bi]].exists
    /\ band_files' = [band_files EXCEPT ![BandMapping[bi]] = Append(@, fi)]
    /\ NextBand
    /\ UNCHANGED <<files, pc, wi, global_stats, work, normalized_values, written, calcVars, zoneVars, sideVars>>

\* _extract_normalize_band opens its output
NormOpen ==
    /\ pc = "normalize"
    /\ fi <= Len(files)
    /\ files[fi].exists
    /\ ~work[fi][BandMapping[bi]].exists
    /\ work' = [work EXCEPT ![fi][BandMapping[bi]] = CreatedFile(files[fi])]
    /\ written' = written \cup {<<fi, BandMapping[bi]>>}
    /\ pc' = "writing"
    /\ wi' = 1
    /\ UNCHANGED <<files, fi, bi, global_stats, band_files, normalized_values,
                   calcVars, zoneVars, sideVars>>

\* one iteration of `for ji, window in src.block_windows(1)`; after the last
\* window the file is closed and listed in band_files
NormWindow ==
    /\ pc = "writing"
    /\ LET f == files[fi]
           band_name == BandMapping[bi]
           min_val == global_stats[band_name].min
           max_val == global_stats[band_name].max
           block == ReadWindow(f, bi, wi)
       IN  /\ \E nb \in NormalizedBlocks(block, min_val, max_val) :
                work' = [work EXCEPT ![fi][band_name] = WriteWindow(@, f, wi, nb)]
           /\ normalized_values' =
                IF NonDegenerate(min_val, max_val)
                THEN NormalizedValues(block, min_val, max_val)
                ELSE normalized_values
           /\ IF wi < NumWindows(f)
              THEN /\ wi' = wi + 1
                   /\ UNCHANGED <<pc, fi, bi, band_files>>
              ELSE /\ wi' = 1
                   /\ pc' = "normalize"
                   /\ band_files' = [band_files EXCEPT ![band_name] = Append(@, fi)]
                   /\ NextBand
    /\ UNCHANGED <<files, global_stats, written, calcVars, zoneVars, sideVars>>

\* the file loop is over: the band lists go to the merge step
NormReturn ==
    /\ pc = "normalize"
    /\ fi > Len(files)
    /\ pc' = "merge"
    /\ UNCHANGED <<files, fi, wi, bi, global_stats, work, band_files,
                   normalized_values, written, calcVars, zoneVars, sideVars>>

\* process_files is called again on the same inputs and output directory
Rerun ==
    /\ pc = "merge"
    /\ pc' = "stats"
    /\ global_stats' = EmptyStats
    /\ fi' = 1 /\ wi' = 1 /\ bi' = 1
    /\ band_files' = [b \in BandNames |-> << >>]
    /\ normalized_values' = << >>
    /\ written' = {}
    /\ UNCHANGED <<files, work, calcVars, zoneVars, sideVars>>

\* ======================================================================
\* _merge_band_files and _calculate_indices
\* ======================================================================
\* band_files = {"red": [], "green": [], "blue": [], "nir": []}: the order of
\* the loop over band_files.items()
MergeOrder == <<"red", "green", "blue", "nir">>

\* Georeferencing: the input file i starts i - 1 pixels after the first one,
\* so that two neighbours overlap as soon as the first is longer than a pixel.
Origin(i) == i - 1

\* the first and the last position covered by the rasters of a band list
ExtentLo(b_files) == SetMin({ Origin(b_files[c]) + 1 : c \in DOMAIN b_files })
ExtentHi(band, b_files) ==
    SetMax({ Origin(b_files[c]) + Len(work[b_files[c]][band].data) :
               c \in DOMAIN b_files })

\* mutant: the new raster is painted over what is there
PaintLast(dest_k, src_k) == src_k

\* merge's default method "first": np.copyto(region, temp, where=region_mask)
\* with region_mask = (region == nodataval): a pixel is taken only where the
\* mosaic is still empty.  The band rasters carry no nodata value, so that
\* nodataval is 0.
PaintFirst(dest_k, src_k) == IF dest_k = 0 THEN src_k ELSE dest_k

\* the loop of merge over the datasets, in the order given
RECURSIVE MergeLoop(_, _, _, _)
MergeLoop(dest, band, b_files, c) ==
    IF c > Len(b_files) THEN dest
    ELSE LET src == work[b_files[c]][band].data
             off == Origin(b_files[c]) + 1 - ExtentLo(b_files)
         IN  MergeLoop([k \in DOMAIN dest |->
                           IF k - off \in DOMAIN src
                           THEN PaintFirst(dest[k], src[k - off])
                           ELSE dest[k]],
                       band, b_files, c + 1)

\* mosaic, out_trans = merge(src_files): the mosaic spans the union of the
\* extents and starts filled with nodataval
Merge(band, b_files) ==
    MergeLoop([k \in 1..(ExtentHi(band, b_files) - ExtentLo(b_files) + 1) |-> 0],
              band, b_files, 1)

\* for band_name, files in band_files.items(): `if files:` is false
MergeSkip ==
    /\ pc = "merge"
    /\ mb <= Len(MergeOrder)
    /\ band_files[MergeOrder[mb]] = << >>
    /\ mb' = mb + 1
    /\ UNCHANGED <<pipeVars, merged, merged_bands, mosaic, indices, divided, zoneVars, sideVars>>

\* _merge_band_files: src_files are opened and merge(src_files) is called
MergeRead ==
    /\ pc = "merge"
    /\ mb <= Len(MergeOrder)
    /\ band_files[MergeOrder[mb]] # << >>
    /\ mosaic' = Merge(MergeOrder[mb], band_files[MergeOrder[mb]])
    /\ pc' = "merging"
    /\ UNCHANGED <<files, fi, wi, bi, global_stats, work, band_files,
                   normalized_values, written, merged, merged_bands, mb,
                   indices, divided, zoneVars, sideVars>>

\* dst.write(mosaic[0], 1) with the profile of src_files[0]; del mosaic;
\* merged_bands[band_name] = str(merged_path)
MergeWrite ==
    /\ pc = "merging"
    /\ LET band_name == MergeOrder[mb]
       IN  /\ merged' = [merged EXCEPT ![band_name] =
                           [exists |-> TRUE,
                            pix |-> [k \in DOMAIN mosaic |-> <<mosaic[k]>>],
                            block |-> files[band_files[band_name][1]].block]]
           /\ merged_bands' = merged_bands \cup {band_name}
    /\ mosaic' = << >>
    /\ mb' = mb + 1
    /\ pc' = "merge"
    /\ UNCHANGED <<files, fi, wi, bi, global_stats, work, band_files,
                   normalized_values, written, indices, divided, zoneVars, sideVars>>

\* return merged_bands; process_files then enters _calculate_indices
MergeReturn ==
    /\ pc = "merge"
    /\ mb > Len(MergeOrder)
    /\ pc' = "indices"
    /\ UNCHANGED <<files, fi, wi, bi, global_stats, work, band_files,
                   normalized_values, written, calcVars, zoneVars, sideVars>>

\* ------------------------------------------------ _compute_indices_block
\* the insertion order of the dictionary of index blocks
IndexOrder == <<"NDVI", "SAVI", "EVI", "AVI", "BI_NIR", "RATIO", "BSI">>
IndexOutputs == { IndexOrder[i] : i \in DOMAIN IndexOrder } \cup {"composite"}
DividedIndices == {"NDVI", "SAVI", "EVI", "RATIO", "BSI"}

\* the Python constants of the formulas, all exact in float32
F32Const(a, b) == F32Div(a, b)

\* src.read(1, window=window).astype(np.float32) / 65535.0
Band01(v) == F32Div(v, Saturation)

\* denom_ndvi = nir + red;  denom_savi = nir + red + L
\* denom_evi = nir + C1 * red - C2 * blue + L_evi
\* denom_ratio = red + green + blue
\* denominator = (red + green) - (nir + blue)
NdviDenom(red, nir) == F32Add(nir, red)
SaviDenom(red, nir) == F32Add(F32Add(nir, red), F32Const(1, 2))

\* mutant: C2 * blue is added
EviDenomPlus(red, blue, nir) ==
    F32Add(F32Add(F32Add(nir, F32Mul(F32Const(6, 1), red)),
                  F32Mul(F32Const(15, 2), blue)),
           F32Const(1, 1))

EviDenom(red, blue, nir) ==
    F32Add(F32Sub(F32Add(nir, F32Mul(F32Const(6, 1), red)),
                  F32Mul(F32Const(15, 2), blue)),
           F32Const(1, 1))

RatioDenom(red, green, blue) == F32Add(F32Add(red, green), blue)
BsiDenom(red, green, blue, nir) == F32Sub(F32Add(red, green), F32Add(nir, blue))

Denominator(name, red, green, blue, nir) ==
    IF name = "NDVI" THEN NdviDenom(red, nir)
    ELSE IF name = "SAVI" THEN SaviDenom(red, nir)
    ELSE IF name = "EVI" THEN EviDenom(red, blue, nir)
    ELSE IF name = "RATIO" THEN RatioDenom(red, green, blue)
    ELSE BsiDenom(red, green, blue, nir)

\* nir - red;  (1.0 + L) * (nir - red);  G * (nir - red);  nir;
\* numerator = (red + green) + (nir + blue)
Numerator(name, red, green, blue, nir) ==
    IF name = "NDVI" THEN F32Sub(nir, red)
    ELSE IF name = "SAVI" THEN F32Mul(F32Const(3, 2), F32Sub(nir, red))
    ELSE IF name = "EVI" THEN F32Mul(F32Const(5, 2), F32Sub(nir, red))
    ELSE IF name = "RATIO" THEN nir
    ELSE F32Add(F32Add(red, green), F32Add(nir, blue))

\* mutant: every pixel is divided
MaskAll(denom) == TRUE

\* mask = denom != 0
Mask(denom) == denom.m # 0

\* x = np.zeros_like(red);  x[mask] = num[mask] / denom[mask]
MaskedDiv(num, denom) == IF Mask(denom) THEN F32DivF(num, denom) ELSE F32Zero

\* avi_component = nir * (1 - red) * (nir - red)
AviComponent(red, nir) ==
    F32Mul(F32Mul(nir, F32Sub(F32Const(1, 1), red)), F32Sub(nir, red))

\* avi[mask_pos] = np.power(k, 1 / 3) where k >= 0, and
\* avi[mask_neg] = -np.power(np.abs(k), 1 / 3) where k < 0.  The power is
\* kept as a symbol: the value is the cube root of root3, negated when neg.
Avi(red, nir) ==
    LET k == AviComponent(red, nir)
    IN  IF ~k.neg THEN [neg |-> FALSE, root3 |-> k]
        ELSE [neg |-> TRUE, root3 |-> F32Abs(k)]

\* bi_nir = (red + green + blue + nir) / 4.0
BiNir(red, green, blue, nir) ==
    F32DivF(F32Add(F32Add(F32Add(red, green), blue), nir), F32Const(4, 1))

\* one pixel of the block of one index
IndexValue(name, red, green, blue, nir) ==
    IF name = "AVI" THEN Avi(red, nir)
    ELSE IF name = "BI_NIR" THEN BiNir(red, green, blue, nir)
    ELSE MaskedDiv(Numerator(name, red, green, blue, nir),
                   Denominator(name, red, green, blue, nir))

\* the dictionary {"NDVI": ndvi, ..., "BSI": bsi} of one window
ComputeIndicesBlock(red, green, blue, nir) ==
    [name \in IndexOutputs \ {"composite"} |->
        [k \in DOMAIN red |-> IndexValue(name, red[k], green[k], blue[k], nir[k])]]

\* the pixels of the window whose division is evaluated, per index
Divisions(lo, red, green, blue, nir) ==
    { nk \in DividedIndices \X { lo + k - 1 : k \in DOMAIN red } :
        Mask(Denominator(nk[1], red[nk[2] - lo + 1], green[nk[2] - lo + 1],
                         blue[nk[2] - lo + 1], nir[nk[2] - lo + 1])) }

\* ----------------------------------------------------- _calculate_indices
\* mutant: the composite bands are shifted by one
CompositeBandShifted(i) == ((i + 1) % Len(IndexOrder)) + 1

\* for i, (name, block) in enumerate(indices_blocks.items()):
\*     output_files["composite"].write(block, i + 1, window=window)
CompositeBand(i) == i + 1

\* the value 0.0 of a pixel not written yet (for AVI, the cube root of 0)
Unwritten(name) ==
    IF name = "AVI" THEN [neg |-> FALSE, root3 |-> F32Zero] ELSE F32Zero

\* rasterio.open(path, "w", **profile): dtype = float32, count = 1
CreatedIndex(f, name) ==
    [exists |-> TRUE, data |-> [k \in 1..Len(f.pix) |-> Unwritten(name)],
     nwin |-> 0, hits |-> [k \in 1..Len(f.pix) |-> 0]]

\* rasterio.open(path, "w", **composite_profile): count = 7
CreatedComposite(f) ==
    [exists |-> TRUE,
     data |-> [k \in 1..Len(f.pix) |->
                 [b \in DOMAIN IndexOrder |-> Unwritten(IndexOrder[b])]],
     nwin |-> 0,
     hits |-> [k \in 1..Len(f.pix) |-> [b \in DOMAIN IndexOrder |-> 0]]]

\* the item of the enumeration written to band b of the composite
ItemOfBand(b) == CHOOSE i \in 0..(Len(IndexOrder) - 1) : CompositeBand(i) = b

\* the seven writes of one window to the composite
WriteComposite(out, f, w, blocks) ==
    [out EXCEPT !.data = [k \in DOMAIN out.data |->
                            IF k >= WinLo(f, w) /\ k <= WinHi(f, w)
                            THEN [b \in DOMAIN IndexOrder |->
                                    blocks[IndexOrder[ItemOfBand(b) + 1]][k - WinLo(f, w) + 1]]
                            ELSE out.data[k]],
                !.nwin = out.nwin + 1,
                !.hits = [k \in DOMAIN out.hits |->
                            IF k >= WinLo(f, w) /\ k <= WinHi(f, w)
                            THEN [b \in DOMAIN IndexOrder |-> out.hits[k][b] + 1]
                            ELSE out.hits[k]]]

\* the window w of red_src lies inside the raster of the band
Readable(band_name, w) ==
    WinHi(merged["red"], w) <= Len(merged[band_name].pix)

\* band_src.read(1, window=window).astype(np.float32) / 65535.0, with the
\* window of red_src
ReadBand01(band_name, w) ==
    [k \in 1..(WinHi(merged["red"], w) - WinLo(merged["red"], w) + 1) |->
        Band01(merged[band_name].pix[WinLo(merged["red"], w) + k - 1][1])]

\* red_path = merged_bands["red"] ... nir_path = merged_bands["nir"] raises
\* KeyError when a band has no entry
CalcMissingBand ==
    /\ pc = "indices"
    /\ merged_bands # BandNames
    /\ pc' = "failed"
    /\ UNCHANGED <<files, fi, wi, bi, global_stats, work, band_files,
                   normalized_values, written, calcVars, zoneVars, sideVars>>

\* the four band rasters are opened and the eight outputs created, with the
\* profile of red_src
CalcOpen ==
    /\ pc = "indices"
    /\ merged_bands = BandNames
    /\ indices' = [name \in IndexOutputs |->
                     IF name = "composite" THEN CreatedComposite(merged["red"])
                     ELSE CreatedIndex(merged["red"], name)]
    /\ divided' = {}
    /\ pc' = "computing"
    /\ wi' = 1
    /\ UNCHANGED <<files, fi, bi, global_stats, work, band_files,
                   normalized_values, written, merged, merged_bands, mosaic,
                   mb, zoneVars, sideVars>>

\* one iteration of `for ji, window in red_src.block_windows(1)`
CalcWindow ==
    /\ pc = "computing"
    /\ \A b \in BandNames : Readable(b, wi)
    /\ LET red_src == merged["red"]
           red == ReadBand01("red", wi)
           green == ReadBand01("green", wi)
           blue == ReadBand01("blue", wi)
           nir == ReadBand01("nir", wi)
           indices_blocks == ComputeIndicesBlock(red, green, blue, nir)
       IN  /\ indices' = [name \in IndexOutputs |->
                IF name = "composite"
                THEN WriteComposite(indices[name], red_src, wi, indices_blocks)
                ELSE WriteWindow(indices[name], red_src, wi, indices_blocks[name])]
           /\ divided' = Divisions(WinLo(red_src, wi), red, green, blue, nir)
           /\ IF wi < NumWindows(red_src)
              THEN wi' = wi + 1 /\ pc' = pc
              ELSE wi' = 1 /\ pc' = "done"
    /\ UNCHANGED <<files, fi, bi, global_stats, work, band_files,
                   normalized_values, written, merged, merged_bands, mosaic,
                   mb, zoneVars, sideVars>>

\* a band raster does not cover the window of red_src: the read is clipped
\* and the block arithmetic or the write raises; `finally` closes the outputs
CalcWindowFails ==
    /\ pc = "computing"
    /\ \E b \in BandNames : ~Readable(b, wi)
    /\ pc' = "failed"
    /\ UNCHANGED <<files, fi, wi, bi, global_stats, work, band_files,
                   normalized_values, written, calcVars, zoneVars, sideVars>>

\* process_files is called again, on the same inputs and output directory,
\* after it returned or raised
RunAgain ==
    /\ pc \in {"done", "failed"}
    /\ pc' = "stats"
    /\ global_stats' = EmptyStats
    /\ fi' = 1 /\ wi' = 1 /\ bi' = 1
    /\ band_files' = [b \in BandNames |-> << >>]
    /\ normalized_values' = << >>
    /\ written' = {}
    /\ merged_bands' = {}
    /\ mb' = 1
    /\ divided' = {}
    /\ UNCHANGED <<files, work, merged, mosaic, indices, zoneVars, sideVars>>

\* no merge and no index computation has run
CalcIdle ==
    /\ merged = [b \in BandNames |-> NoFile]
    /\ merged_bands = {}
    /\ mosaic = << >>
    /\ mb = 1
    /\ indices = [name \in IndexOutputs |-> AbsentFile]
    /\ divided = {}

\* the thresholder is not running
ZoneIdle ==
    /\ indices_paths = << >>
    /\ zone_name = 0
    /\ conditions = << >>
    /\ zpc = "idle"
    /\ zw = 1
    /\ thematic_maps = {}
    /\ zone_map = AbsentFile

\* calculate_zone_statistics is not running
ReportIdle ==
    /\ map_files = << >>
    /\ zi = 1
    /\ zone_stats = << >>
    /\ spc = "idle"

\* run_interactive_workflow is not running
FlowIdle ==
    /\ wpc = "idle"
    /\ unit = 1
    /\ config = [download_needed |-> FALSE, shapefile_path |-> FALSE, departments |-> 0]
    /\ completed = {}
    /\ trace = << >>
    /\ raised = [kind |-> "none", stage |-> "none"]

\* no dialogue with the user
DialogIdle ==
    /\ stats = {}
    /\ dpc = "idle"
    /\ pending = [index |-> "", operator |-> ""]
    /\ result = [none |-> TRUE, list |-> << >>]

\* no file of URLs is read
UrlIdle ==
    /\ lines = << >>
    /\ li = 1
    /\ urls_data = << >>
    /\ current_dept = "None"
    /\ current_band = "None"
    /\ upc = "idle"

\* no download
DlIdle ==
    /\ remote = << >>
    /\ local = [exists |-> FALSE, content |-> << >>]
    /\ dlpc = "idle"
    /\ file_exists = FALSE
    /\ downloaded = 0
    /\ total_size = 0
    /\ response = [status_code |-> 0, body |-> << >>]
    /\ requested = FALSE

SideIdle ==
    /\ ReportIdle
    /\ FlowIdle
    /\ DialogIdle
    /\ UrlIdle
    /\ DlIdle

Init ==
    /\ files \in FileLists
    /\ pc = "stats"
    /\ fi = 1 /\ wi = 1 /\ bi = 1
    /\ global_stats = EmptyStats
    /\ work = [i \in 1..Len(files) |-> [b \in BandNames |-> AbsentFile]]
    /\ band_files = [b \in BandNames |-> << >>]
    /\ normalized_values = << >>
    /\ written = {}
    /\ CalcIdle
    /\ ZoneIdle
    /\ SideIdle

Next ==
    \/ StatsSkipFile
    \/ StatsWindow
    \/ StatsReturn
    \/ NormSkipFile
    \/ NormSkipExisting
    \/ NormOpen
    \/ NormWindow
    \/ NormReturn
    \/ Rerun

Spec == Init /\ [][Next]_vars

\* ======================================================================
\* VegetationThresholder: create_thematic_maps and _create_zone_map
\* ======================================================================
\* Index values and thresholds are written in tenths (5 stands for 0.5):
\* only their order matters to the comparators.
IndexNames == {"NDVI", "SAVI"}
BaseIndexValues == <<4, 5, 6>>
Thresholds == {5}
Operators == {">", "<", ">=", "<=", "=="}      \* "==" is no comparator of the code

\* an index name of indices_paths: its key may be absent from the mapping,
\* and its file may be absent from the disk
IndexRaster(start, n, blk) ==
    [inDict |-> TRUE, exists |-> TRUE, block |-> blk,
     pix |-> [k \in 1..n |-> <<BaseIndexValues[((start + k - 2) % Len(BaseIndexValues)) + 1]>>]]
UnknownIndex == [inDict |-> FALSE, exists |-> FALSE, block |-> 1, pix |-> << >>]
MissingIndex == [inDict |-> TRUE, exists |-> FALSE, block |-> 1, pix |-> << >>]

\* the index rasters of one run share their size (MaxPix pixels) and their
\* block layout
IndexPathChoices ==
    UNION { [IndexNames -> {UnknownIndex, MissingIndex} \cup
                           { IndexRaster(s, MaxPix, blk) : s \in 1..2 }] :
            blk \in 1..MaxPix }

Conditions == [index : IndexNames, operator : Operators, threshold : Thresholds]
ConditionLists == UNION { [1..n -> Conditions] : n \in 0..MaxConds }

\* not index_path or not os.path.exists(index_path)
NotFound(index_name) ==
    ~indices_paths[index_name].inDict \/ ~indices_paths[index_name].exists

KnownOperator(operator) == operator \in {">", "<", ">=", "<="}

\* the comparison of one pixel, for the four comparators
ApplyCondition(operator, v, threshold) ==
    IF operator = ">" THEN v > threshold
    ELSE IF operator = "<" THEN v < threshold
    ELSE IF operator = ">=" THEN v >= threshold
    ELSE v <= threshold

\* mutant: the conditions are combined with OR
CombineMasksOr(final_mask, condition_mask) ==
    IF final_mask.none THEN [none |-> FALSE, mask |-> condition_mask]
    ELSE [none |-> FALSE,
          mask |-> [k \in DOMAIN condition_mask |-> final_mask.mask[k] \/ condition_mask[k]]]

\* final_mask = condition_mask if final_mask is None
\*              else final_mask & condition_mask
CombineMasks(final_mask, condition_mask) ==
    IF final_mask.none THEN [none |-> FALSE, mask |-> condition_mask]
    ELSE [none |-> FALSE,
          mask |-> [k \in DOMAIN condition_mask |-> final_mask.mask[k] /\ condition_mask[k]]]

\* the loop over the conditions, for the window w of the reference ref
RECURSIVE FinalMask(_, _, _, _, _)
FinalMask(conds, c, ref, w, final_mask) ==
    IF c > Len(conds) THEN final_mask
    ELSE LET cond == conds[c]
             src == [indices_paths[cond.index] EXCEPT !.block = ref.block]
             block == ReadWindow(src, 1, w)
         IN  IF NotFound(cond.index) \/ ~KnownOperator(cond.operator)
             THEN FinalMask(conds, c + 1, ref, w, final_mask)
             ELSE FinalMask(conds, c + 1, ref, w,
                    CombineMasks(final_mask,
                        [k \in DOMAIN block |->
                            ApplyCondition(cond.operator, block[k], cond.threshold)]))

\* np.where(final_mask, 255, 0), or np.zeros when final_mask is None
OutputBlock(conds, ref, w) ==
    LET final_mask == FinalMask(conds, 1, ref, w, [none |-> TRUE, mask |-> << >>])
    IN  IF ~final_mask.none
        THEN [k \in DOMAIN final_mask.mask |-> IF final_mask.mask[k] THEN 255 ELSE 0]
        ELSE [k \in 1..(WinHi(ref, w) - WinLo(ref, w) + 1) |-> 0]

\* reference_path = indices_paths.get(conditions[0]["index"])
Reference(conds) == indices_paths[conds[1].index]

\* for zone_name, zone_conditions in thresholds.items():
\*     if not zone_conditions: continue
ZoneSkipEmpty ==
    /\ zpc = "loop"
    /\ zone_name < MaxZones
    /\ zone_name' = zone_name + 1
    /\ zpc' = "next"
    /\ UNCHANGED <<indices_paths, conditions, zw, thematic_maps, zone_map, pipeVars, calcVars, sideVars>>

\* _create_zone_map returns None: the first condition's raster is not found
ZoneNoReference ==
    /\ zpc = "loop"
    /\ zone_name < MaxZones
    /\ \E conds \in ConditionLists \ {<< >>} :
          /\ NotFound(conds[1].index)
          /\ conditions' = conds
    /\ zone_name' = zone_name + 1
    /\ zpc' = "next"
    /\ UNCHANGED <<indices_paths, zw, thematic_maps, zone_map, pipeVars, calcVars, sideVars>>

\* _create_zone_map opens the reference and creates <zone_name>_map.tif
ZoneOpen ==
    /\ zpc = "loop"
    /\ zone_name < MaxZones
    /\ \E conds \in ConditionLists \ {<< >>} :
          /\ ~NotFound(conds[1].index)
          /\ conditions' = conds
          /\ zone_map' = CreatedFile(Reference(conds))
    /\ zone_name' = zone_name + 1
    /\ zpc' = "writing"
    /\ zw' = 1
    /\ UNCHANGED <<indices_paths, thematic_maps, pipeVars, calcVars, sideVars>>

\* one iteration of `for ji, window in reference.block_windows(1)`; after
\* the last window the path is returned and entered in thematic_maps
ZoneWindow ==
    /\ zpc = "writing"
    /\ LET ref == Reference(conditions)
       IN  /\ zone_map' = WriteWindow(zone_map, ref, zw, OutputBlock(conditions, ref, zw))
           /\ IF zw < NumWindows(ref)
              THEN /\ zw' = zw + 1
                   /\ UNCHANGED <<zpc, thematic_maps>>
              ELSE /\ zw' = 1
                   /\ zpc' = "next"
                   /\ thematic_maps' = thematic_maps \cup {zone_name}
    /\ UNCHANGED <<indices_paths, zone_name, conditions, pipeVars, calcVars, sideVars>>

\* the loop takes the next zone of thresholds: the conditions and the map
\* path of the last one are dropped
ZoneAdvance ==
    /\ zpc = "next"
    /\ zpc' = "loop"
    /\ conditions' = << >>
    /\ zone_map' = AbsentFile
    /\ UNCHANGED <<indices_paths, zone_name, zw, thematic_maps, pipeVars, calcVars, sideVars>>

\* return thematic_maps
ZoneReturn ==
    /\ zpc = "loop"
    /\ zpc' = "done"
    /\ UNCHANGED <<indices_paths, zone_name, conditions, zw, thematic_maps,
                   zone_map, pipeVars, calcVars, sideVars>>

\* the statistics and normalization passes are not running
PipeIdle ==
    /\ files = << >>
    /\ pc = "idle"
    /\ fi = 1 /\ wi = 1 /\ bi = 1
    /\ global_stats = EmptyStats
    /\ work = << >>
    /\ band_files = [b \in BandNames |-> << >>]
    /\ normalized_values = << >>
    /\ written = {}

InitZone ==
    /\ indices_paths \in IndexPathChoices
    /\ zone_name = 0
    /\ conditions = << >>
    /\ zpc = "loop"
    /\ zw = 1
    /\ thematic_maps = {}
    /\ zone_map = AbsentFile
    /\ PipeIdle
    /\ CalcIdle
    /\ SideIdle

NextZone ==
    \/ ZoneSkipEmpty
    \/ ZoneNoReference
    \/ ZoneOpen
    \/ ZoneWindow
    \/ ZoneAdvance
    \/ ZoneReturn

SpecZone == InitZone /\ [][NextZone]_vars

\* ======================================================================
\* process_files as a whole: statistics, normalization, merge, indices
\* ======================================================================
NextRun ==
    \/ StatsSkipFile
    \/ StatsWindow
    \/ StatsReturn
    \/ NormSkipFile
    \/ NormSkipExisting
    \/ NormOpen
    \/ NormWindow
    \/ NormReturn
    \/ MergeSkip
    \/ MergeRead
    \/ MergeWrite
    \/ MergeReturn
    \/ CalcMissingBand
    \/ CalcOpen
    \/ CalcWindow
    \/ RunAgain

SpecRun == Init /\ [][NextRun]_vars

\* ======================================================================
\* the normalization pass with failures
\* ======================================================================
\* the process is killed, or a read or a write raises, inside the window
\* loop of _extract_normalize_band: the output stays as it is
NormInterrupted ==
    /\ pc = "writing"
    /\ pc' = "aborted"
    /\ UNCHANGED <<files, fi, wi, bi, global_stats, work, band_files,
                   normalized_values, written, calcVars, zoneVars, sideVars>>

\* process_files is called again after the failure
RerunAborted ==
    /\ pc = "aborted"
    /\ pc' = "stats"
    /\ global_stats' = EmptyStats
    /\ fi' = 1 /\ wi' = 1 /\ bi' = 1
    /\ band_files' = [b \in BandNames |-> << >>]
    /\ normalized_values' = << >>
    /\ written' = {}
    /\ UNCHANGED <<files, work, calcVars, zoneVars, sideVars>>

NextCrash ==
    \/ Next
    \/ NormInterrupted
    \/ RerunAborted

SpecCrash == Init /\ [][NextCrash]_vars

\* ======================================================================
\* the merge step on arbitrary normalized rasters
\* ======================================================================
\* The normalized rasters of the work directory: file i holds, at each of its
\* 1..MaxPix pixels, either 0 or the value i, in all four bands.
NormalizedChoices ==
    {<< >>} \cup UNION { [1..n -> BOOLEAN] : n \in 1..MaxPix }
NormalizedLists == UNION { [1..n -> NormalizedChoices] : n \in 0..MaxFiles }

\* the files of the input list that exist, in order
RECURSIVE ListedFiles(_, _)
ListedFiles(fs, i) ==
    IF i > Len(fs) THEN << >>
    ELSE IF fs[i].exists THEN <<i>> \o ListedFiles(fs, i + 1)
    ELSE ListedFiles(fs, i + 1)

InitMerge ==
    /\ \E ch \in NormalizedLists :
          /\ files = [i \in DOMAIN ch |->
                        IF ch[i] = << >> THEN NoFile
                        ELSE [exists |-> TRUE, pix |-> Raster(1, Len(ch[i])),
                              block |-> 1]]
          /\ work = [i \in DOMAIN ch |-> [b \in BandNames |->
                        IF ch[i] = << >> THEN AbsentFile
                        ELSE [exists |-> TRUE,
                              data |-> [k \in DOMAIN ch[i] |-> IF ch[i][k] THEN i ELSE 0],
                              nwin |-> Len(ch[i]),
                              hits |-> [k \in DOMAIN ch[i] |-> 1]]]]
    /\ band_files = [b \in BandNames |-> ListedFiles(files, 1)]
    /\ pc = "merge"
    /\ fi = Len(files) + 1 /\ wi = 1 /\ bi = 1
    /\ global_stats = EmptyStats
    /\ normalized_values = << >>
    /\ written = {}
    /\ CalcIdle
    /\ ZoneIdle
    /\ SideIdle

NextMerge ==
    \/ MergeSkip
    \/ MergeRead
    \/ MergeWrite
    \/ MergeReturn

SpecMerge == InitMerge /\ [][NextMerge]_vars

\* ======================================================================
\* _calculate_indices on arbitrary band rasters
\* ======================================================================
\* 16-bit samples <<red, green, blue, nir>>: all zero; the denominator of
\* EVI zero; the denominator of BSI zero; a bright pixel; nir below red
IndexPixels == << <<0, 0, 0, 0>>,
                  <<0, 0, 8738, 0>>,
                  <<3, 2, 1, 4>>,
                  <<32767, 1, 65535, 65534>>,
                  <<32768, 0, 0, 1>> >>

BandColumn == [red |-> 1, green |-> 2, blue |-> 3, nir |-> 4]

BandRaster(start, n, blk, band_name) ==
    [exists |-> TRUE, block |-> blk,
     pix |-> [k \in 1..n |->
                <<IndexPixels[((start + k - 2) % Len(IndexPixels)) + 1][BandColumn[band_name]]>>]]

\* the four rasters handed to _calculate_indices: runs of the same pixels,
\* each band with a length of its own
MergedChoices ==
    { [b \in BandNames |-> BandRaster(t[1], t[2][b], t[3], b)] :
        t \in { u \in (1..Len(IndexPixels)) \X [BandNames -> 1..MaxPix] \X (1..MaxPix) :
                  u[3] <= u[2]["red"] } }

InitIndices ==
    /\ files = << >>
    /\ pc = "indices"
    /\ fi = 1 /\ wi = 1 /\ bi = 1
    /\ global_stats = EmptyStats
    /\ work = << >>
    /\ band_files = [b \in BandNames |-> << >>]
    /\ normalized_values = << >>
    /\ written = {}
    /\ merged \in MergedChoices
    /\ merged_bands = BandNames
    /\ mosaic = << >>
    /\ mb = Len(MergeOrder) + 1
    /\ indices = [name \in IndexOutputs |-> AbsentFile]
    /\ divided = {}
    /\ ZoneIdle
    /\ SideIdle

NextIndices ==
    \/ CalcOpen
    \/ CalcWindow
    \/ CalcWindowFails

SpecIndices == InitIndices /\ [][NextIndices]_vars

\* ======================================================================
\* the three streaming passes side by side
\* ======================================================================
InitPasses ==
    \/ Init
    \/ InitIndices
    \/ InitZone

NextPasses ==
    \/ Next
    \/ NextIndices
    \/ NextZone

SpecPasses == InitPasses /\ [][NextPasses]_vars

\* ======================================================================
\* VegetationThresholder.calculate_zone_statistics
\* ======================================================================
\* A thematic map is a uint8 raster of 0 and 255 that carries the transform
\* of the reference index raster: a is the pixel width (transform[0]) and e
\* the pixel height (transform[4], negative for a north-up raster), in metres.
AbsentMap == [exists |-> FALSE, data |-> << >>, transform |-> [a |-> 1, e |-> 0 - 1]]

PixelSizes == { [a |-> 1, e |-> 0 - 1], [a |-> 2, e |-> 0 - 2], [a |-> 2, e |-> 2] }

\* the maps of one run share the grid of the index rasters
MapChoices(n, t) ==
    {AbsentMap} \cup
    { [exists |-> TRUE, data |-> d, transform |-> t] : d \in [1..n -> {0, 255}] }

\* a map of 2,600 pixels of 2 m x 2 m, 2,500 of them detected
LargeMap ==
    [exists |-> TRUE,
     data |-> [k \in 1..2600 |-> IF k <= 2500 THEN 255 ELSE 0],
     transform |-> [a |-> 2, e |-> 0 - 2]]

Abs(x) == IF x < 0 THEN 0 - x ELSE x

\* np.sum(data == 255)
DetectedPixels(data) == Cardinality({ k \in DOMAIN data : data[k] = 255 })

\* mutant: the sign of the product is kept
PixelAreaSigned(transform) == transform.a * transform.e

\* abs(transform[0] * transform[4])
PixelArea(transform) == Abs(transform.a * transform.e)

\* (detected_pixels / total_pixels) * 100, as a fraction
Percentage(detected_pixels, total_pixels) ==
    [num |-> detected_pixels * 100, den |-> total_pixels]

\* detected_area_m2 / 10000, in whole hectares and ten-thousandths of one
Hectares(detected_area_m2) ==
    [whole |-> detected_area_m2 \div 10000, frac |-> detected_area_m2 % 10000]

\* the entry zone_stats[zone_name] computed from the map src
ZoneStatistics(src) ==
    LET total_pixels == Len(src.data)
        detected_pixels == DetectedPixels(src.data)
        detected_area_m2 == detected_pixels * PixelArea(src.transform)
    IN  [total_pixels |-> total_pixels,
         detected_pixels |-> detected_pixels,
         percentage |-> Percentage(detected_pixels, total_pixels),
         area_m2 |-> detected_area_m2,
         area_ha |-> Hectares(detected_area_m2)]

\* the next key of thematic_maps at or after zone z, in insertion order
NextEntry(z) ==
    IF \E y \in thematic_maps : y >= z
    THEN SetMin({ y \in thematic_maps : y >= z })
    ELSE MaxZones + 1

\* if not os.path.exists(map_path): continue
ZoneStatsSkip ==
    /\ spc = "loop"
    /\ zi <= MaxZones
    /\ ~map_files[zi].exists
    /\ zi' = NextEntry(zi + 1)
    /\ UNCHANGED <<map_files, zone_stats, spc, pipeVars, calcVars, zoneVars,
                   flowVars, dialogVars, urlVars, dlVars>>

\* one iteration of the loop: the map is read whole and its entry is stored
ZoneStatsRead ==
    /\ spc = "loop"
    /\ zi <= MaxZones
    /\ map_files[zi].exists
    /\ zone_stats' = (zi :> ZoneStatistics(map_files[zi])) @@ zone_stats
    /\ zi' = NextEntry(zi + 1)
    /\ UNCHANGED <<map_files, spc, pipeVars, calcVars, zoneVars,
                   flowVars, dialogVars, urlVars, dlVars>>

\* return zone_stats
ZoneStatsReturn ==
    /\ spc = "loop"
    /\ zi > MaxZones
    /\ spc' = "returned"
    /\ UNCHANGED <<map_files, zi, zone_stats, pipeVars, calcVars, zoneVars,
                   flowVars, dialogVars, urlVars, dlVars>>

InitReport ==
    /\ \/ \E n \in 1..MaxPix, t \in PixelSizes :
             map_files \in [1..MaxZones -> MapChoices(n, t)]
       \/ map_files \in [1..MaxZones -> {AbsentMap, LargeMap}]
    /\ thematic_maps \in SUBSET (1..MaxZones)
    /\ zi = NextEntry(1)
    /\ zone_stats = << >>
    /\ spc = "loop"
    /\ indices_paths = << >>
    /\ zone_name = 0
    /\ conditions = << >>
    /\ zpc = "idle"
    /\ zw = 1
    /\ zone_map = AbsentFile
    /\ PipeIdle
    /\ CalcIdle
    /\ FlowIdle
    /\ DialogIdle
    /\ UrlIdle
    /\ DlIdle

NextReport ==
    \/ ZoneStatsSkip
    \/ ZoneStatsRead
    \/ ZoneStatsReturn

SpecReport == InitReport /\ [][NextReport]_vars

\* ======================================================================
\* OrthoProcessor.run_interactive_workflow: the stages and their failures
\* ======================================================================
\* A stage is one of the functions that run_interactive_workflow,
\* process_files and _perform_thematic_analysis call in turn; it processes
\* its inputs one after the other, and any of them may raise.
ZoneKeys == <<"shadow_zone", "rocky_zone">>

\* what the user answers to _get_user_configuration: the number of
\* departments, whether to download, whether a shapefile is given
Configs ==
    [download_needed : BOOLEAN, shapefile_path : BOOLEAN, departments : 1..MaxFiles]

\* mutant: the bands are merged before they are normalized
StageOrderSwapped(c) ==
    <<"get_user_configuration",
      IF c.download_needed THEN "download_data" ELSE "check_existing_data",
      "convert_and_merge">>
    \o (IF c.shapefile_path THEN <<"crop_with_shapefile">> ELSE << >>)
    \o <<"calculate_global_stats", "merge_band_files", "extract_normalize_band",
         "calculate_indices",
         "get_indices_statistics", "display_statistics", "get_user_thresholds",
         "create_thematic_maps", "calculate_zone_statistics",
         "create_summary_report">>

\* the calls of run_interactive_workflow, process_files, _extract_and_merge_bands
\* and _perform_thematic_analysis, in program order
StageOrder(c) ==
    <<"get_user_configuration",
      IF c.download_needed THEN "download_data" ELSE "check_existing_data",
      "convert_and_merge">>
    \o (IF c.shapefile_path THEN <<"crop_with_shapefile">> ELSE << >>)
    \o <<"calculate_global_stats", "extract_normalize_band", "merge_band_files",
         "calculate_indices",
         "get_indices_statistics", "display_statistics", "get_user_thresholds",
         "create_thematic_maps", "calculate_zone_statistics",
         "create_summary_report">>

\* how many inputs a stage loops over: departments, ortho files (one per
\* department), bands, index rasters or zones
Units(stage, c) ==
    IF stage \in {"download_data", "check_existing_data", "convert_and_merge",
                  "crop_with_shapefile", "calculate_global_stats",
                  "extract_normalize_band"}
    THEN c.departments
    ELSE IF stage = "merge_band_files" THEN Len(MergeOrder)
    ELSE IF stage = "get_indices_statistics" THEN Len(IndexOrder)
    ELSE IF stage \in {"get_user_thresholds", "create_thematic_maps",
                       "calculate_zone_statistics"}
    THEN Len(ZoneKeys)
    ELSE 1

PositionOf(stage, c) == CHOOSE j \in 1..Len(StageOrder(c)) : StageOrder(c)[j] = stage

Running == wpc \notin {"idle", "except", "returned", "propagated"}

\* the exception classes of the two except clauses; ValueError, KeyError and
\* the errors of rasterio are subclasses of Exception
ExceptionKinds == {"KeyboardInterrupt", "Exception"}

\* mutant: only `except KeyboardInterrupt` is there
CaughtInterruptOnly(kind) == kind = "KeyboardInterrupt"

\* except KeyboardInterrupt: ...  except Exception as e: ...
Caught(kind) == kind \in {"KeyboardInterrupt", "Exception"}

\* config = self._get_user_configuration() returns
Configure ==
    /\ wpc = "get_user_configuration"
    /\ \E c \in Configs :
          /\ config' = c
          /\ wpc' = StageOrder(c)[2]
          /\ trace' = Append(trace, StageOrder(c)[2])
    /\ completed' = completed \cup {<<wpc, 1>>}
    /\ unit' = 1
    /\ UNCHANGED <<raised, pipeVars, calcVars, zoneVars, reportVars, dialogVars,
                   urlVars, dlVars>>

\* one input of the running stage is processed and its output is complete
StageUnit ==
    /\ Running
    /\ wpc # "get_user_configuration"
    /\ unit <= Units(wpc, config)
    /\ completed' = completed \cup {<<wpc, unit>>}
    /\ unit' = unit + 1
    /\ UNCHANGED <<wpc, config, trace, raised, pipeVars, calcVars, zoneVars,
                   reportVars, dialogVars, urlVars, dlVars>>

\* the running stage returns and the next call starts
StageReturn ==
    /\ Running
    /\ wpc # "get_user_configuration"
    /\ unit > Units(wpc, config)
    /\ PositionOf(wpc, config) < Len(StageOrder(config))
    /\ wpc' = StageOrder(config)[PositionOf(wpc, config) + 1]
    /\ trace' = Append(trace, wpc')
    /\ unit' = 1
    /\ UNCHANGED <<config, completed, raised, pipeVars, calcVars, zoneVars,
                   reportVars, dialogVars, urlVars, dlVars>>

\* the running stage raises while it processes an input (no department
\* given, no data found, a missing band, an I/O error, Ctrl-C)
StageRaises ==
    /\ Running
    /\ unit <= Units(wpc, config)
    /\ \E kind \in ExceptionKinds : raised' = [kind |-> kind, stage |-> wpc]
    /\ wpc' = "except"
    /\ UNCHANGED <<unit, config, completed, trace, pipeVars, calcVars, zoneVars,
                   reportVars, dialogVars, urlVars, dlVars>>

\* the except clauses of run_interactive_workflow: a message is printed
Except ==
    /\ wpc = "except"
    /\ wpc' = IF Caught(raised.kind) THEN "returned" ELSE "propagated"
    /\ UNCHANGED <<unit, config, completed, trace, raised, pipeVars, calcVars,
                   zoneVars, reportVars, dialogVars, urlVars, dlVars>>

\* create_summary_report returned: the success message is printed
WorkflowReturn ==
    /\ Running
    /\ wpc # "get_user_configuration"
    /\ unit > Units(wpc, config)
    /\ PositionOf(wpc, config) = Len(StageOrder(config))
    /\ wpc' = "returned"
    /\ UNCHANGED <<unit, config, completed, trace, raised, pipeVars, calcVars,
                   zoneVars, reportVars, dialogVars, urlVars, dlVars>>

InitWorkflow ==
    /\ wpc = "get_user_configuration"
    /\ unit = 1
    /\ config = [download_needed |-> FALSE, shapefile_path |-> FALSE, departments |-> 0]
    /\ completed = {}
    /\ trace = <<"get_user_configuration">>
    /\ raised = [kind |-> "none", stage |-> "none"]
    /\ PipeIdle
    /\ CalcIdle
    /\ ZoneIdle
    /\ ReportIdle
    /\ DialogIdle
    /\ UrlIdle
    /\ DlIdle

NextWorkflow ==
    \/ Configure
    \/ StageUnit
    \/ StageReturn
    \/ StageRaises
    \/ Except
    \/ WorkflowReturn

SpecWorkflow == InitWorkflow /\ [][NextWorkflow]_vars

\* ======================================================================
\* VegetationThresholder._get_zone_thresholds: the dialogue with the user
\* ======================================================================
\* What the user may type at each prompt, with what the conversions of the
\* code make of it.
\* input(...).strip().upper() at the index prompt
StripUpper ==
    ("fin" :> "FIN") @@ (" Fin " :> "FIN") @@ ("ndvi" :> "NDVI") @@
    ("NDVI" :> "NDVI") @@ (" savi" :> "SAVI") @@ ("evi" :> "EVI") @@ ("" :> "")

\* input(...).strip() at the operator prompt
Strip ==
    (">" :> ">") @@ (" < " :> "<") @@ (">=" :> ">=") @@ ("<= " :> "<=") @@
    ("==" :> "==") @@ ("=>" :> "=>") @@ ("" :> "")

\* float(input(...)) at the threshold prompt, in tenths; ValueError when
\* the text is no number
ValueError == [ok |-> FALSE, value |-> 0]
Float ==
    ("0.5" :> [ok |-> TRUE, value |-> 5]) @@ (" 0.5 " :> [ok |-> TRUE, value |-> 5]) @@
    ("abc" :> ValueError) @@ ("" :> ValueError) @@ ("0,5" :> ValueError)

\* input(...).strip().lower() at the last prompt
StripLower ==
    ("o" :> "o") @@ ("OUI" :> "oui") @@ (" y " :> "y") @@ ("Yes" :> "yes") @@
    ("n" :> "n") @@ ("non" :> "non") @@ ("" :> "") @@ ("ok" :> "ok")

\* the return value of the function: a list, or None
ListValue(list) == [none |-> FALSE, list |-> list]
NoneValue == [none |-> TRUE, list |-> << >>]

\* index_name = input(...).strip().upper(): 'fin' returns the conditions,
\* a key of stats goes on, anything else asks again
AskIndex ==
    /\ dpc = "index"
    /\ \E typed \in DOMAIN StripUpper :
          IF StripUpper[typed] = "FIN"
          THEN /\ result' = ListValue(conditions)
               /\ dpc' = "returned"
               /\ UNCHANGED pending
          ELSE IF StripUpper[typed] \in stats /\ Len(conditions) < MaxConds
          THEN /\ pending' = [pending EXCEPT !.index = StripUpper[typed]]
               /\ dpc' = "operator"
               /\ UNCHANGED result
          ELSE UNCHANGED <<pending, dpc, result>>
    /\ UNCHANGED <<stats, conditions, indices_paths, zone_name, zpc, zw,
                   thematic_maps, zone_map, pipeVars, calcVars, reportVars,
                   flowVars, urlVars, dlVars>>

\* operator = input(...).strip(), asked again until it is a comparator
AskOperator ==
    /\ dpc = "operator"
    /\ \E typed \in DOMAIN Strip :
          IF Strip[typed] \in {">", "<", ">=", "<="}
          THEN /\ pending' = [pending EXCEPT !.operator = Strip[typed]]
               /\ dpc' = "threshold"
          ELSE UNCHANGED <<pending, dpc>>
    /\ UNCHANGED <<stats, result, conditions, indices_paths, zone_name, zpc, zw,
                   thematic_maps, zone_map, pipeVars, calcVars, reportVars,
                   flowVars, urlVars, dlVars>>

\* threshold_value = float(input(...)), asked again on ValueError; then
\* the condition is appended
AskThreshold ==
    /\ dpc = "threshold"
    /\ \E typed \in DOMAIN Float :
          IF Float[typed].ok
          THEN /\ conditions' = Append(conditions,
                     [index |-> pending.index, operator |-> pending.operator,
                      threshold |-> Float[typed].value])
               /\ dpc' = "continue"
          ELSE UNCHANGED <<conditions, dpc>>
    /\ UNCHANGED <<stats, pending, result, indices_paths, zone_name, zpc, zw,
                   thematic_maps, zone_map, pipeVars, calcVars, reportVars,
                   flowVars, urlVars, dlVars>>

\* continue_input = input(...).strip().lower(): o, oui, y, yes start the
\* next condition, anything else breaks out of the loop, after which the
\* function ends without a return statement
AskContinue ==
    /\ dpc = "continue"
    /\ \E typed \in DOMAIN StripLower :
          IF StripLower[typed] \in {"o", "oui", "y", "yes"}
          THEN /\ dpc' = "index"
               /\ UNCHANGED result
          ELSE /\ result' = NoneValue
               /\ dpc' = "returned"
    /\ UNCHANGED <<stats, pending, conditions, indices_paths, zone_name, zpc, zw,
                   thematic_maps, zone_map, pipeVars, calcVars, reportVars,
                   flowVars, urlVars, dlVars>>

InitDialogue ==
    /\ stats \in SUBSET IndexNames
    /\ dpc = "index"
    /\ pending = [index |-> "", operator |-> ""]
    /\ result = NoneValue
    /\ PipeIdle
    /\ CalcIdle
    /\ ZoneIdle
    /\ ReportIdle
    /\ FlowIdle
    /\ UrlIdle
    /\ DlIdle

NextDialogue ==
    \/ AskIndex
    \/ AskOperator
    \/ AskThreshold
    \/ AskContinue

SpecDialogue == InitDialogue /\ [][NextDialogue]_vars

\* ======================================================================
\* OrthoDownloader.load_urls_from_file
\* ======================================================================
\* The lines a file of URLs is made of, with what line.strip() makes of them.
StripLine ==
    ("D073" :> "D073") @@ (" D038" :> "D038") @@ ("D" :> "D") @@
    ("RVB" :> "RVB") @@ ("irc " :> "irc") @@
    ("http://a" :> "http://a") @@ ("https://b" :> "https://b") @@
    ("" :> "") @@ ("# c" :> "# c")

UrlFiles == UNION { [1..n -> DOMAIN StripLine] : n \in 0..MaxLines }

\* not line or line.startswith("#")
IsBlankOrComment(line) == line \in {"", "# c"}

\* line.startswith("D") and line[1:].isdigit()
IsDepartment(line) == line \in {"D073", "D038"}

\* line.upper()
Upper(line) == IF line = "irc" THEN "IRC" ELSE line

\* line.upper() in ["RVB", "IRC"]
IsBand(line) == Upper(line) \in {"RVB", "IRC"}

\* line.startswith("http")
IsUrl(line) == line \in {"http://a", "https://b"}

\* the first test of the if/elif chain that the line passes
Branch(line) ==
    IF IsBlankOrComment(line) THEN "continue"
    ELSE IF IsDepartment(line) THEN "department"
    ELSE IF IsBand(line) THEN "band"
    ELSE IF IsUrl(line) /\ current_dept # "None" /\ current_band # "None" THEN "url"
    ELSE "none"

Line == StripLine[lines[li]]

\* a blank line, a comment, or a line that passes no test
UrlSkip ==
    /\ upc = "reading"
    /\ li <= Len(lines)
    /\ Branch(Line) \in {"continue", "none"}
    /\ li' = li + 1
    /\ UNCHANGED <<lines, urls_data, current_dept, current_band, upc, pipeVars,
                   calcVars, zoneVars, reportVars, flowVars, dialogVars, dlVars>>

\* current_dept = line; its dictionary is created if it is not there
UrlDepartment ==
    /\ upc = "reading"
    /\ li <= Len(lines)
    /\ Branch(Line) = "department"
    /\ current_dept' = Line
    /\ urls_data' = IF Line \in DOMAIN urls_data THEN urls_data
                    ELSE (Line :> << >>) @@ urls_data
    /\ li' = li + 1
    /\ UNCHANGED <<lines, current_band, upc, pipeVars, calcVars, zoneVars,
                   reportVars, flowVars, dialogVars, dlVars>>

\* current_band = line.upper(); its list is created in the dictionary of
\* the current department, if there is one
UrlBand ==
    /\ upc = "reading"
    /\ li <= Len(lines)
    /\ Branch(Line) = "band"
    /\ current_band' = Upper(Line)
    /\ urls_data' =
          IF current_dept # "None" /\ Upper(Line) \notin DOMAIN urls_data[current_dept]
          THEN [urls_data EXCEPT ![current_dept] = (Upper(Line) :> << >>) @@ @]
          ELSE urls_data
    /\ li' = li + 1
    /\ UNCHANGED <<lines, current_dept, upc, pipeVars, calcVars, zoneVars,
                   reportVars, flowVars, dialogVars, dlVars>>

\* urls_data[current_dept][current_band].append(line)
UrlAppend ==
    /\ upc = "reading"
    /\ li <= Len(lines)
    /\ Branch(Line) = "url"
    /\ current_band \in DOMAIN urls_data[current_dept]
    /\ urls_data' = [urls_data EXCEPT ![current_dept][current_band] = Append(@, Line)]
    /\ li' = li + 1
    /\ UNCHANGED <<lines, current_dept, current_band, upc, pipeVars, calcVars,
                   zoneVars, reportVars, flowVars, dialogVars, dlVars>>

\* urls_data[current_dept][current_band] raises KeyError: the current
\* department has no list for the current band
UrlKeyError ==
    /\ upc = "reading"
    /\ li <= Len(lines)
    /\ Branch(Line) = "url"
    /\ current_band \notin DOMAIN urls_data[current_dept]
    /\ upc' = "raised"
    /\ UNCHANGED <<lines, li, urls_data, current_dept, current_band, pipeVars,
                   calcVars, zoneVars, reportVars, flowVars, dialogVars, dlVars>>

\* return urls_data
UrlReturn ==
    /\ upc = "reading"
    /\ li > Len(lines)
    /\ upc' = "returned"
    /\ UNCHANGED <<lines, li, urls_data, current_dept, current_band, pipeVars,
                   calcVars, zoneVars, reportVars, flowVars, dialogVars, dlVars>>

InitUrls ==
    /\ lines \in UrlFiles
    /\ li = 1
    /\ urls_data = << >>
    /\ current_dept = "None"
    /\ current_band = "None"
    /\ upc = "reading"
    /\ PipeIdle
    /\ CalcIdle
    /\ ZoneIdle
    /\ ReportIdle
    /\ FlowIdle
    /\ DialogIdle
    /\ DlIdle

NextUrls ==
    \/ UrlSkip
    \/ UrlDepartment
    \/ UrlBand
    \/ UrlAppend
    \/ UrlKeyError
    \/ UrlReturn

SpecUrls == InitUrls /\ [][NextUrls]_vars

\* ======================================================================
\* OrthoDownloader._download_with_resume
\* ======================================================================
\* A file is a sequence of bytes; the remote file holds the bytes 1..n, and
\* the local file, when it exists, is what an earlier download left: the
\* first k bytes of the remote file (k = n: the whole of it).
RemoteFiles == { [k \in 1..n |-> k] : n \in 1..MaxBytes }

NoLocal == [exists |-> FALSE, content |-> << >>]

LocalFiles(r) ==
    {NoLocal} \cup { [exists |-> TRUE, content |-> SubSeq(r, 1, k)] : k \in 0..Len(r) }

\* os.path.getsize(file_path) if file_exists else 0
GetSize(f) == IF f.exists THEN Len(f.content) ELSE 0

\* what the server may answer to a GET with the header Range: bytes=k-
\*   206 and the bytes after the first k; 200 and the whole file, when it
\*   ignores the header; 416 when the range is empty
Answers(r, k) ==
    { [status_code |-> 200, body |-> r] } \cup
    ( IF k < Len(r)
      THEN { [status_code |-> 206, body |-> SubSeq(r, k + 1, Len(r))] }
      ELSE { [status_code |-> 416, body |-> << >>] } )

\* open(file_path, "ab" if file_exists else "wb")
Open(f, exists) ==
    IF exists THEN [exists |-> TRUE, content |-> f.content]
    ELSE [exists |-> TRUE, content |-> << >>]

\* requests.head fails: a status other than 200, or a RequestException
DlHeadFails ==
    /\ dlpc = "start"
    /\ file_exists' = local.exists
    /\ downloaded' = GetSize(local)
    /\ dlpc' = "returned"
    /\ UNCHANGED <<remote, local, total_size, response, requested, pipeVars,
                   calcVars, zoneVars, reportVars, flowVars, dialogVars, urlVars>>

\* requests.head answers 200: total_size is its content-length, or 0
\* without that header; a local file that reaches it is not fetched again
DlHead ==
    /\ dlpc = "start"
    /\ file_exists' = local.exists
    /\ downloaded' = GetSize(local)
    /\ \E has_length \in BOOLEAN :
          total_size' = IF has_length THEN Len(remote) ELSE 0
    /\ dlpc' = IF downloaded' >= total_size' /\ total_size' > 0
               THEN "returned" ELSE "get"
    /\ UNCHANGED <<remote, local, response, requested, pipeVars, calcVars,
                   zoneVars, reportVars, flowVars, dialogVars, urlVars>>

\* requests.get with Range: bytes=<downloaded>-; on 206 or 200 the local
\* file is opened, on any other status the function returns
DlGet ==
    /\ dlpc = "get"
    /\ requested' = TRUE
    /\ \E r \in Answers(remote, downloaded) :
          /\ response' = r
          /\ IF r.status_code \in {206, 200}
             THEN /\ local' = Open(local, file_exists)
                  /\ dlpc' = "streaming"
             ELSE /\ dlpc' = "returned"
                  /\ UNCHANGED local
    /\ UNCHANGED <<remote, file_exists, downloaded, total_size, pipeVars,
                   calcVars, zoneVars, reportVars, flowVars, dialogVars, urlVars>>

\* one iteration of `for chunk in r.iter_content(...)`: f.write(chunk)
DlChunk ==
    /\ dlpc = "streaming"
    /\ response.body # << >>
    /\ local' = [local EXCEPT !.content = Append(@, Head(response.body))]
    /\ response' = [response EXCEPT !.body = Tail(@)]
    /\ UNCHANGED <<remote, dlpc, file_exists, downloaded, total_size, requested,
                   pipeVars, calcVars, zoneVars, reportVars, flowVars, dialogVars,
                   urlVars>>

\* requests.get or the stream raises RequestException: a message is printed
DlRaises ==
    /\ \/ dlpc = "get"
       \/ dlpc = "streaming" /\ response.body # << >>
    /\ requested' = TRUE
    /\ dlpc' = "failed"
    /\ UNCHANGED <<remote, local, file_exists, downloaded, total_size, response,
                   pipeVars, calcVars, zoneVars, reportVars, flowVars, dialogVars,
                   urlVars>>

\* the body is exhausted: the file is closed, the transfer is complete
DlDone ==
    /\ dlpc = "streaming"
    /\ response.body = << >>
    /\ dlpc' = "done"
    /\ UNCHANGED <<remote, local, file_exists, downloaded, total_size, response,
                   requested, pipeVars, calcVars, zoneVars, reportVars, flowVars,
                   dialogVars, urlVars>>

InitDownload ==
    /\ remote \in RemoteFiles
    /\ local \in LocalFiles(remote)
    /\ dlpc = "start"
    /\ file_exists = FALSE
    /\ downloaded = 0
    /\ total_size = 0
    /\ response = [status_code |-> 0, body |-> << >>]
    /\ requested = FALSE
    /\ PipeIdle
    /\ CalcIdle
    /\ ZoneIdle
    /\ ReportIdle
    /\ FlowIdle
    /\ DialogIdle
    /\ UrlIdle

NextDownload ==
    \/ DlHeadFails
    \/ DlHead
    \/ DlGet
    \/ DlChunk
    \/ DlRaises
    \/ DlDone

SpecDownload == InitDownload /\ [][NextDownload]_vars

\* ======================================================================
\* process_files called once, and called again with more input files
\* ======================================================================
\* In the first call on a fresh output directory no normalized raster
\* exists yet, so that the branch that skips an existing one is never taken.
NextOnce ==
    \/ StatsSkipFile
    \/ StatsWindow
    \/ StatsReturn
    \/ NormSkipFile
    \/ NormOpen
    \/ NormWindow
    \/ NormReturn
    \/ MergeSkip
    \/ MergeRead
    \/ MergeWrite
    \/ MergeReturn
    \/ CalcMissingBand
    \/ CalcOpen
    \/ CalcWindow

SpecOnce == Init /\ [][NextOnce]_vars

\* process_files is called again on the same output directory, with the
\* input files of the last call and one more
RunAgainWith ==
    /\ pc \in {"done", "failed"}
    /\ Len(files) < MaxFiles
    /\ \E f \in FileChoices \ {NoFile} :
          /\ files' = Append(files, f)
          /\ work' = Append(work, [b \in BandNames |-> AbsentFile])
    /\ pc' = "stats"
    /\ global_stats' = EmptyStats
    /\ fi' = 1 /\ wi' = 1 /\ bi' = 1
    /\ band_files' = [b \in BandNames |-> << >>]
    /\ normalized_values' = << >>
    /\ written' = {}
    /\ merged_bands' = {}
    /\ mb' = 1
    /\ divided' = {}
    /\ UNCHANGED <<merged, mosaic, indices, zoneVars, sideVars>>

NextReruns ==
    \/ NextRun
    \/ RunAgainWith

SpecReruns == Init /\ [][NextReruns]_vars

\* ======================================================================
\* Properties of the thematic maps (under SpecZone)
\* ======================================================================
Present(index_name) ==
    indices_paths[index_name].inDict /\ indices_paths[index_name].exists

\* the conditions that can be evaluated: raster present, comparator one
\* of >, <, >=, <=
UsableConditions ==
    { c \in DOMAIN conditions :
        /\ Present(conditions[c].index)
        /\ conditions[c].operator \in {">", "<", ">=", "<="} }

\* condition c holds at pixel k
Holds(c, k) ==
    LET v == indices_paths[conditions[c].index].pix[k][1]
        t == conditions[c].threshold
        o == conditions[c].operator
    IN  \/ o = ">" /\ v > t
        \/ o = "<" /\ v < t
        \/ o = ">=" /\ v >= t
        \/ o = "<=" /\ v <= t

ZoneWrittenPositions ==
    IF zone_map.nwin = 0 THEN {}
    ELSE 1..WinHi(Reference(conditions), zone_map.nwin)

\* C1: in every zone map every pixel written is 255 if and only if every
\* condition of the zone that can be evaluated (index value compared with
\* its threshold by >, <, >= or <=) holds at that pixel, and 0 otherwise;
\* the map never holds a value other than 0 and 255.
C1_ZoneMapIsConjunction ==
    /\ \A k \in DOMAIN zone_map.data : zone_map.data[k] \in {0, 255}
    /\ (zone_map.exists /\ UsableConditions # {}) =>
          \A k \in ZoneWrittenPositions :
             /\ zone_map.data[k] = 255 <=> \A c \in UsableConditions : Holds(c, k)
             /\ zone_map.data[k] = 0 <=> \E c \in UsableConditions : ~Holds(c, k)

\* a complete map of two conditions on two indices, with a detected pixel
\* and a pixel where the first condition holds and the second fails
C1_Witness ==
    /\ zpc = "next"
    /\ zone_name \in thematic_maps
    /\ UsableConditions = {1, 2}
    /\ conditions[1].index # conditions[2].index
    /\ \E k, j \in DOMAIN zone_map.data :
          /\ zone_map.data[k] = 255
          /\ zone_map.data[j] = 0
          /\ Holds(1, j) /\ ~Holds(2, j)

\* C2: a zone in which a condition names an index that is unknown or whose
\* raster is missing, at any position, while another condition's raster is
\* present, still gets a map, the AND of the conditions whose rasters are
\* present.
C2_MissingConditionSkipped ==
    ( /\ zpc = "next"
      /\ \E c \in DOMAIN conditions : ~Present(conditions[c].index)
      /\ \E c \in DOMAIN conditions : Present(conditions[c].index)
      /\ \A c \in DOMAIN conditions : conditions[c].operator \in {">", "<", ">=", "<="} )
    => /\ zone_name \in thematic_maps
       /\ zone_map.exists
       /\ \A k \in DOMAIN zone_map.data :
             zone_map.data[k] = 255 <=> \A c \in UsableConditions : Holds(c, k)

\* C3: a zone without any usable condition has no entry in the mapping
\* returned and no raster written, and every zone with a usable condition
\* has an entry.
C3_EntryIffUsableCondition ==
    zpc = "next" =>
        /\ UsableConditions = {} =>
              (zone_name \notin thematic_maps /\ ~zone_map.exists)
        /\ UsableConditions # {} => zone_name \in thematic_maps

\* ======================================================================
\* Properties of the statistics and normalization passes (under Spec)
\* ======================================================================
\* the source band that holds a logical band: 1 = nir, 2 = red, 3 = green,
\* 4 = blue
BandNo == [nir |-> 1, red |-> 2, green |-> 3, blue |-> 4]

ExistingFiles == { i \in 1..Len(files) : files[i].exists }

\* every sample of a logical band, over all existing files
AllSamples(b) ==
    { files[ik[1]].pix[ik[2]][BandNo[b]] :
        ik \in { t \in ExistingFiles \X (1..MaxPix) : t[2] <= Len(files[t[1]].pix) } }

ValidSamples(b) == { v \in AllSamples(b) : 0 < v /\ v < 65535 }

StatsDone == pc \in {"normalize", "writing", "merge"}

\* _calculate_global_stats has just returned
StatsReturned == pc = "normalize" /\ fi = 1 /\ bi = 1

\* C4: once _calculate_global_stats has returned, each band's min and max
\* are the minimum and maximum of exactly the samples v of that band with
\* 0 < v < 65535, over all windows of all existing files.
C4_StatsAreMinMaxOfValid ==
    StatsReturned =>
        \A b \in BandNames :
            ValidSamples(b) # {} =>
                /\ global_stats[b].min = SetMin(ValidSamples(b))
                /\ global_stats[b].max = SetMax(ValidSamples(b))

\* a band with several valid samples next to invalid ones, read from
\* more than one window
C4_Witness ==
    /\ StatsReturned
    /\ \E b \in BandNames :
          /\ Cardinality(ValidSamples(b)) >= 2
          /\ AllSamples(b) # ValidSamples(b)
          /\ global_stats[b].min < global_stats[b].max
    /\ \E i \in ExistingFiles : NumWindows(files[i]) >= 2

\* the windows of the existing files, in the order of the pass, when every
\* raster is cut into blocks of blk pixels
RECURSIVE WindowsFrom(_, _, _)
WindowsFrom(i, w, blk) ==
    IF i > Len(files) THEN << >>
    ELSE LET f == [files[i] EXCEPT !.block = blk]
         IN  IF ~f.exists \/ w > NumWindows(f) THEN WindowsFrom(i + 1, 1, blk)
             ELSE << <<f, w>> >> \o WindowsFrom(i, w + 1, blk)

RECURSIVE FoldWindows(_, _)
FoldWindows(gs, ws) ==
    IF ws = << >> THEN gs
    ELSE FoldWindows(FoldWindow(gs, ws[1][1], ws[1][2]), Tail(ws))

Swap(ws, a, b) ==
    [k \in DOMAIN ws |-> IF k = a THEN ws[b] ELSE IF k = b THEN ws[a] ELSE ws[k]]

Reverse(ws) == [k \in DOMAIN ws |-> ws[Len(ws) + 1 - k]]

\* C5: the final {min, max} of the pass are those of the same accumulation
\* run over the windows in another order (any two windows exchanged, or all
\* reversed) and over any other cutting of the rasters into windows.
C5_StatsOrderIndependent ==
    StatsReturned =>
        \A blk \in 1..MaxPix :
            LET ws == WindowsFrom(1, 1, blk)
            IN  /\ FoldWindows(EmptyStats, Reverse(ws)) = global_stats
                /\ \A a, b \in DOMAIN ws :
                      FoldWindows(EmptyStats, Swap(ws, a, b)) = global_stats

\* two windows whose own statistics differ have been accumulated
C5_Witness ==
    /\ StatsReturned
    /\ LET ws == WindowsFrom(1, 1, 1)
       IN  \E a, b \in DOMAIN ws :
              /\ a < b
              /\ \A n \in BandNames :
                    FoldWindows(EmptyStats, <<ws[a]>>)[n] #
                    FoldWindows(EmptyStats, <<ws[b]>>)[n]

\* C6: at every step of the statistics pass each band's running min does
\* not increase and its running max does not decrease.
C6_StatsMonotone ==
    [][ (pc = "stats" /\ pc' = "stats") =>
          \A b \in BandNames :
             /\ global_stats'[b].min <= global_stats[b].min
             /\ global_stats'[b].max >= global_stats[b].max ]_vars

\* in the middle of the pass, a band whose running min is below, and
\* whose running max is above, the finite values of its first window
C6_Witness ==
    /\ pc = "stats"
    /\ \E b \in BandNames :
          LET ws == WindowsFrom(1, 1, 1)
              first == FoldWindows(EmptyStats, <<ws[1]>>)[b]
          IN  /\ ws # << >>
              /\ first.min < PosInf
              /\ global_stats[b].min < first.min
              /\ \E c \in BandNames :
                    /\ FoldWindows(EmptyStats, <<ws[1]>>)[c].max > NegInf
                    /\ global_stats[c].max > FoldWindows(EmptyStats, <<ws[1]>>)[c].max

\* C7: for an empty file list, a list without any existing file, or a band
\* without any valid pixel, the pass returns min = +infinity and
\* max = -infinity, and it writes no file.
C7_EmptyStatsAreInfinite ==
    /\ [](StatsDone =>
            \A b \in BandNames :
               ValidSamples(b) = {} =>
                  global_stats[b] = [min |-> PosInf, max |-> NegInf])
    /\ [][pc = "stats" => work' = work]_vars

\* the pass has returned and no input file exists
C7_Witness ==
    /\ pc = "normalize"
    /\ ExistingFiles = {}
    /\ \A b \in BandNames : global_stats[b] = [min |-> PosInf, max |-> NegInf]

\* ---------------------------------------------------------- normalization
\* 0 <= x <= 65535
F32InTarget(x) ==
    \/ x.m = 0
    \/ /\ ~x.neg
       /\ x.e <= 0 - 8
       /\ (F32Trunc(x) < 65535 \/ (F32Trunc(x) = 65535 /\ F32IsInt(x)))

\* the positions of the windows written so far to an output of file i
WrittenPositions(i, b) ==
    IF work[i][b].nwin = 0 THEN {}
    ELSE 1..WinHi(files[i], work[i][b].nwin)

SourceSample(i, b, k) == files[i].pix[k][BandNo[b]]

\* the outputs of this run to look at: the one being written, window by
\* window, and all of them when the normalization is over
RunOutputs ==
    IF pc = "merge" THEN written
    ELSE { ib \in written :
             /\ work[ib[1]][ib[2]].nwin > 0
             /\ work[ib[1]][ib[2]].nwin < NumWindows(files[ib[1]]) }

\* C8: in a run, every rescaled value of a valid pixel lies in [0, 65535]
\* before its conversion to 16 bits, and every invalid source pixel of a
\* normalized band written in the run is 0.
C8_NormalizedInRange ==
    /\ \A k \in DOMAIN normalized_values : F32InTarget(normalized_values[k])
    /\ \A ib \in RunOutputs :
          \A k \in WrittenPositions(ib[1], ib[2]) :
             LET v == SourceSample(ib[1], ib[2], k)
             IN  ~(0 < v /\ v < 65535) => work[ib[1]][ib[2]].data[k] = 0

\* a window with a rescaled valid pixel and an invalid pixel has been written
C8_Witness ==
    /\ normalized_values # << >>
    /\ \E ib \in RunOutputs :
          /\ global_stats[ib[2]].max > global_stats[ib[2]].min
          /\ \E k, j \in WrittenPositions(ib[1], ib[2]) :
                /\ ~(0 < SourceSample(ib[1], ib[2], k))
                /\ work[ib[1]][ib[2]].data[j] > 0

\* the integer part of a * 65535 / b, for 0 <= a <= b <= 65535, without
\* leaving 32 bits: 65535 = 255 * 257
ExactTrunc(a, b) ==
    ((a * 255) \div b) * 257 + (((a * 255) % b) * 257) \div b

\* C9, as claimed: with max > min every valid source pixel v is written as
\* the integer part of the real number (v - min) / (max - min) * 65535.
C9_Original ==
    \A ib \in written :
       LET st == global_stats[ib[2]]
       IN  st.max > st.min =>
              \A k \in WrittenPositions(ib[1], ib[2]) :
                 LET v == SourceSample(ib[1], ib[2], k)
                 IN  (0 < v /\ v < 65535) =>
                        work[ib[1]][ib[2]].data[k] =
                            ExactTrunc(v - st.min, st.max - st.min)

\* C9, amended: with max > min every valid source pixel v is written as
\* the integer part of the single-precision value of
\* (v - min) / (max - min) * 65535, which is the integer part of the real
\* value or one more; min and max are the statistics of the pixel's logical
\* band; each written window holds the values of its own pixels whatever
\* other windows have been written, and the unwritten ones are untouched.
C9_NormalizedValue ==
    \A ib \in RunOutputs :
       LET st == global_stats[ib[2]]
           out == work[ib[1]][ib[2]]
       IN  st.max > st.min =>
              /\ \A k \in WrittenPositions(ib[1], ib[2]) :
                    LET v == SourceSample(ib[1], ib[2], k)
                        exact == ExactTrunc(v - st.min, st.max - st.min)
                    IN  (0 < v /\ v < 65535) =>
                           /\ out.data[k] = F32Trunc(Rescale(v, st.min, st.max))
                           /\ exact <= out.data[k]
                           /\ out.data[k] <= exact + 1
              /\ \A k \in DOMAIN out.data \ WrittenPositions(ib[1], ib[2]) :
                    out.data[k] = 0

\* a raster of two windows, the first written and the second not yet,
\* with a valid pixel strictly between min and max
C9_Witness ==
    \E ib \in RunOutputs :
       LET st == global_stats[ib[2]]
       IN  /\ st.max > st.min
           /\ work[ib[1]][ib[2]].nwin = 1
           /\ NumWindows(files[ib[1]]) = 2
           /\ \E k \in WrittenPositions(ib[1], ib[2]) :
                 /\ st.min < SourceSample(ib[1], ib[2], k)
                 /\ SourceSample(ib[1], ib[2], k) < st.max
                 /\ work[ib[1]][ib[2]].data[k] > 0

\* C10: with max <= min (the infinities of an empty accumulation included)
\* every pixel of every window written is 0, and the step computes no
\* rescaled values.
C10_DegenerateGivesZero ==
    /\ [](\A ib \in written :
            global_stats[ib[2]].max <= global_stats[ib[2]].min =>
               \A k \in DOMAIN work[ib[1]][ib[2]].data :
                  work[ib[1]][ib[2]].data[k] = 0)
    /\ [][ (pc = "writing" /\
            global_stats[BandMapping[bi]].max <= global_stats[BandMapping[bi]].min)
           => normalized_values' = normalized_values ]_vars

\* a complete output of a band with max = min whose source has a valid
\* pixel, and one of a band with the infinities
C10_Witness ==
    /\ \E ib \in written :
          /\ global_stats[ib[2]].max = global_stats[ib[2]].min
          /\ work[ib[1]][ib[2]].nwin = NumWindows(files[ib[1]])
          /\ \E k \in DOMAIN files[ib[1]].pix :
                0 < SourceSample(ib[1], ib[2], k) /\ SourceSample(ib[1], ib[2], k) < 65535
    /\ \E ib \in written :
          /\ global_stats[ib[2]].min = PosInf
          /\ work[ib[1]][ib[2]].nwin = NumWindows(files[ib[1]])

\* ======================================================================
\* Properties of the index computation (under SpecIndices)
\* ======================================================================
\* the band value of pixel k, scaled to [0, 1]
Scaled(band_name, k) == F32Div(merged[band_name].pix[k][1], 65535)

\* the pixels the index pass has written so far
CalcWritten ==
    IF indices["NDVI"].exists
    THEN { k \in DOMAIN indices["NDVI"].hits : indices["NDVI"].hits[k] > 0 }
    ELSE {}

\* the denominators and the values of the indices, as the specification
\* writes them, in single precision
ClaimDenominator(name, R, G, B, NIR) ==
    CASE name = "NDVI" -> F32Add(NIR, R)
      [] name = "SAVI" -> F32Add(F32Add(NIR, R), F32Div(1, 2))
      [] name = "EVI" ->
            F32Add(F32Sub(F32Add(NIR, F32Mul(F32Div(6, 1), R)),
                          F32Mul(F32Div(15, 2), B)),
                   F32Div(1, 1))
      [] name = "RATIO" -> F32Add(F32Add(R, G), B)
      [] name = "BSI" -> F32Sub(F32Add(R, G), F32Add(NIR, B))

ClaimValue(name, R, G, B, NIR) ==
    CASE name = "NDVI" -> F32DivF(F32Sub(NIR, R), F32Add(NIR, R))
      [] name = "SAVI" ->
            F32DivF(F32Mul(F32Div(3, 2), F32Sub(NIR, R)),
                    F32Add(F32Add(NIR, R), F32Div(1, 2)))
      [] name = "EVI" ->
            F32DivF(F32Mul(F32Div(5, 2), F32Sub(NIR, R)),
                    ClaimDenominator("EVI", R, G, B, NIR))
      [] name = "BI_NIR" ->
            F32DivF(F32Add(F32Add(F32Add(R, G), B), NIR), F32Div(4, 1))
      [] name = "RATIO" -> F32DivF(NIR, F32Add(F32Add(R, G), B))
      [] name = "BSI" ->
            F32DivF(F32Add(F32Add(R, G), F32Add(NIR, B)),
                    F32Sub(F32Add(R, G), F32Add(NIR, B)))
      [] name = "AVI" ->
            LET k == F32Mul(F32Mul(NIR, F32Sub(F32Div(1, 1), R)), F32Sub(NIR, R))
            IN  [neg |-> k.neg, root3 |-> [k EXCEPT !.neg = FALSE]]

NonZeroDenominators(k) ==
    \A name \in DividedIndices :
        ClaimDenominator(name, Scaled("red", k), Scaled("green", k),
                         Scaled("blue", k), Scaled("nir", k)).m # 0

\* C11: for every pixel written and every index with a division (NDVI,
\* SAVI, EVI, RATIO, BSI), a denominator equal to 0 gives the output 0 and
\* the division is not evaluated for that pixel; no output of any index is
\* a NaN or an infinity.
C11_ZeroDenominatorGivesZero ==
    \A k \in CalcWritten :
        LET R == Scaled("red", k)
            G == Scaled("green", k)
            B == Scaled("blue", k)
            NIR == Scaled("nir", k)
        IN  /\ \A name \in DividedIndices :
                  ClaimDenominator(name, R, G, B, NIR).m = 0 =>
                     /\ indices[name].data[k] = F32Zero
                     /\ <<name, k>> \notin divided
            /\ \A name \in DividedIndices \cup {"BI_NIR"} :
                  F32IsFinite(indices[name].data[k])
            /\ F32IsFinite(indices["AVI"].data[k].root3)

\* a finished pass in which NDVI, EVI, RATIO and BSI each met a zero
\* denominator
C11_Witness ==
    /\ pc = "done"
    /\ \A name \in {"NDVI", "EVI", "RATIO", "BSI"} :
          \E k \in CalcWritten :
             ClaimDenominator(name, Scaled("red", k), Scaled("green", k),
                              Scaled("blue", k), Scaled("nir", k)).m = 0

\* C12: for every pixel written whose denominators are all non-zero, each of
\* the seven rasters holds the value of its formula on the band values
\* divided by 65535: NDVI, SAVI, EVI, BI_NIR, RATIO and BSI as quotients, AVI
\* as the cube root of |k| with the sign of k = NIR * (1 - R) * (NIR - R).
C12_IndexFormulas ==
    \A k \in CalcWritten :
        NonZeroDenominators(k) =>
           \A i \in DOMAIN IndexOrder :
              indices[IndexOrder[i]].data[k] =
                 ClaimValue(IndexOrder[i], Scaled("red", k), Scaled("green", k),
                            Scaled("blue", k), Scaled("nir", k))

\* a finished pass with non-zero denominators at a pixel of negative AVI
\* and at a pixel of positive AVI
C12_Witness ==
    /\ pc = "done"
    /\ \E k \in CalcWritten :
          /\ NonZeroDenominators(k)
          /\ indices["AVI"].data[k].neg
          /\ indices["NDVI"].data[k].neg
    /\ \E k \in CalcWritten :
          /\ NonZeroDenominators(k)
          /\ ~indices["AVI"].data[k].neg
          /\ indices["AVI"].data[k].root3.m # 0
          /\ indices["EVI"].data[k].neg

\* C13: when _calculate_indices is over, band k of the composite equals, at
\* every pixel, the raster of the k-th index of NDVI, SAVI, EVI, AVI,
\* BI_NIR, RATIO, BSI.
C13_CompositeBandOrder ==
    pc = "done" =>
       \A k \in DOMAIN indices["composite"].data :
          \A b \in 1..7 :
             indices["composite"].data[k][b] =
                <<indices["NDVI"], indices["SAVI"], indices["EVI"], indices["AVI"],
                  indices["BI_NIR"], indices["RATIO"], indices["BSI"]>>[b].data[k]

\* a finished pass of two windows or more whose index rasters differ
C13_Witness ==
    /\ pc = "done"
    /\ indices["composite"].nwin >= 2
    /\ \E k \in DOMAIN indices["NDVI"].data :
          /\ indices["NDVI"].data[k] # indices["SAVI"].data[k]
          /\ indices["RATIO"].data[k] # indices["BSI"].data[k]

\* C14: band rasters of different sizes make the index pass end before it
\* writes any window.
C14_MismatchWritesNothing ==
    (\E b \in BandNames : Len(merged[b].pix) # Len(merged["red"].pix)) =>
        /\ pc # "done"
        /\ \A name \in IndexOutputs : indices[name].nwin = 0

\* ======================================================================
\* Properties of the streaming passes (under SpecPasses)
\* ======================================================================
\* the pixel counts of the first n windows of a raster
RECURSIVE WindowPixels(_, _)
WindowPixels(f, n) ==
    IF n = 0 THEN 0
    ELSE WinHi(f, n) - WinLo(f, n) + 1 + WindowPixels(f, n - 1)

\* every pixel of the output was written once, by windows whose pixel
\* counts add up to the size of the raster
WrittenOnce(out, f) ==
    /\ \A k \in DOMAIN out.hits : out.hits[k] = 1
    /\ DOMAIN out.hits = 1..Len(f.pix)
    /\ WindowPixels(f, out.nwin) = Len(f.pix)

\* C15: a complete pass (normalization of one band of one file, index
\* computation, classification of one zone) has written every pixel of each
\* of its outputs exactly once, and the pixel counts of its windows sum to
\* the size of the raster.
C15_WindowsPartitionOutput ==
    /\ \A i \in DOMAIN work : \A b \in BandNames :
          (work[i][b].exists /\ work[i][b].nwin = NumWindows(files[i])) =>
              WrittenOnce(work[i][b], files[i])
    /\ pc = "done" =>
          /\ \A name \in IndexOutputs \ {"composite"} :
                WrittenOnce(indices[name], merged["red"])
          /\ \A k \in DOMAIN indices["composite"].hits : \A b \in 1..7 :
                indices["composite"].hits[k][b] = 1
          /\ DOMAIN indices["composite"].hits = 1..Len(merged["red"].pix)
    /\ (zone_map.exists /\ zone_map.nwin = NumWindows(Reference(conditions))) =>
          WrittenOnce(zone_map, Reference(conditions))

\* a finished index pass of two windows or more
C15_Witness ==
    /\ pc = "done"
    /\ indices["composite"].nwin >= 2
    /\ \A name \in IndexOutputs : indices[name].nwin = NumWindows(merged["red"])

\* ======================================================================
\* Properties of the merge step (under SpecMerge)
\* ======================================================================
\* C16: the pixels a step holds in memory cover at most one window of the
\* raster: the mosaic of the merge step is no longer than a block.
C16_OneWindowInMemory ==
    pc = "merging" =>
        Len(mosaic) <= files[band_files[MergeOrder[mb]][1]].block

\* the positions of the input i and its value at the position g
Covers(i, band_name, g) ==
    g >= Origin(i) + 1 /\ g <= Origin(i) + Len(work[i][band_name].data)
InputValue(i, band_name, g) == work[i][band_name].data[g - Origin(i)]

\* the inputs of the band list that cover g, by their place in the list
Coverers(band_name, g) ==
    { c \in DOMAIN band_files[band_name] :
        Covers(band_files[band_name][c], band_name, g) }

UnionLo(band_name) ==
    SetMin({ Origin(band_files[band_name][c]) + 1 : c \in DOMAIN band_files[band_name] })
UnionHi(band_name) ==
    SetMax({ Origin(band_files[band_name][c]) +
             Len(work[band_files[band_name][c]][band_name].data) :
               c \in DOMAIN band_files[band_name] })

MergedValue(band_name, g) == merged[band_name].pix[g - UnionLo(band_name) + 1][1]

\* C19 as stated: the merged raster spans the union of the extents and, at
\* every pixel covered by two inputs or more, holds the value of the last
\* input that covers it.
C19_Original ==
    \A band_name \in merged_bands :
        /\ Len(merged[band_name].pix) = UnionHi(band_name) - UnionLo(band_name) + 1
        /\ \A g \in UnionLo(band_name)..UnionHi(band_name) :
              Cardinality(Coverers(band_name, g)) >= 2 =>
                 MergedValue(band_name, g) =
                    InputValue(band_files[band_name][SetMax(Coverers(band_name, g))],
                               band_name, g)

\* C19: the merged raster spans the union of the extents and, at every
\* pixel, holds the value of the first input, in the order given, that
\* covers it with a non-zero value, and 0 when there is none.
C19_FirstNonZeroWins ==
    \A band_name \in merged_bands :
        /\ Len(merged[band_name].pix) = UnionHi(band_name) - UnionLo(band_name) + 1
        /\ \A g \in UnionLo(band_name)..UnionHi(band_name) :
              LET nz == { c \in Coverers(band_name, g) :
                            InputValue(band_files[band_name][c], band_name, g) # 0 }
              IN  MergedValue(band_name, g) =
                     IF nz = {} THEN 0
                     ELSE InputValue(band_files[band_name][SetMin(nz)], band_name, g)

\* a merged band with a pixel covered by two inputs of different non-zero
\* values
C19_Witness ==
    \E band_name \in merged_bands :
        \E g \in UnionLo(band_name)..UnionHi(band_name) :
            LET cs == Coverers(band_name, g)
            IN  /\ Cardinality(cs) >= 2
                /\ InputValue(band_files[band_name][SetMin(cs)], band_name, g) # 0
                /\ InputValue(band_files[band_name][SetMax(cs)], band_name, g) # 0
                /\ InputValue(band_files[band_name][SetMin(cs)], band_name, g) #
                   InputValue(band_files[band_name][SetMax(cs)], band_name, g)

\* C20: the merge of a band with no input raster fails in the merge step,
\* and leaves no merged raster and no entry for the band.
C20_EmptyBandFailsInMerge ==
    [][ (pc = "merge" /\ mb <= Len(MergeOrder) /\ band_files[MergeOrder[mb]] = << >>)
        => /\ pc' = "failed"
           /\ merged' = merged
           /\ merged_bands' = merged_bands ]_vars

\* ======================================================================
\* Properties of repeated runs (under SpecRun and SpecCrash)
\* ======================================================================
\* the normalized, merged and index rasters of the inputs all exist, complete
AllOutputsComplete ==
    /\ \E i \in DOMAIN files : files[i].exists
    /\ \A i \in DOMAIN files : files[i].exists =>
          \A b \in BandNames :
             work[i][b].exists /\ work[i][b].nwin = NumWindows(files[i])
    /\ \A b \in BandNames : merged[b].exists
    /\ \A name \in IndexOutputs :
          indices[name].exists /\ indices[name].nwin = NumWindows(merged["red"])

\* C17: once the outputs of a run all exist, complete, no step of
\* process_files writes to a normalized, merged or index raster.
C17_SecondRunWritesNothing ==
    [][ AllOutputsComplete =>
           (work' = work /\ merged' = merged /\ indices' = indices) ]_vars

\* C18: no file whose windows were not all written is in the lists handed
\* to the merge step.
C18_PartialNotMerged ==
    pc = "merge" =>
       \A b \in BandNames : \A c \in DOMAIN band_files[b] :
          work[band_files[b][c]][b].nwin = NumWindows(files[band_files[b][c]])

\* ======================================================================
\* Properties of the zone statistics (under SpecReport)
\* ======================================================================
\* the pixels of the map of zone z that hold 255
Detected(z) == { k \in DOMAIN map_files[z].data : map_files[z].data[k] = 255 }

C21_Entry(z) ==
    LET s == zone_stats[z]
        t == map_files[z].transform
    IN  /\ s.detected_pixels = Cardinality(Detected(z))
        /\ s.area_m2 = s.detected_pixels * (Abs(t.a) * Abs(t.e))
        /\ s.area_ha.frac \in 0..9999
        /\ s.area_ha.whole * 10000 + s.area_ha.frac = s.area_m2
        /\ (s.detected_pixels = 2500 /\ Abs(t.a) = 2 /\ Abs(t.e) = 2)
              => s.area_ha = [whole |-> 1, frac |-> 0]

\* C21: every entry of zone_stats holds the number of pixels of its map
\* that equal 255, that number times |pixel width x pixel height| as area_m2
\* and area_m2 / 10000 as area_ha (2,500 detected pixels of 2 m x 2 m are
\* exactly 1 ha), and no step of calculate_zone_statistics changes a map.
C21_ZoneStatistics ==
    /\ [](\A z \in DOMAIN zone_stats : C21_Entry(z))
    /\ [][map_files' = map_files]_vars

\* the statistics of a map of 2,500 detected pixels of 2 m x 2 m were
\* returned, next to a zone whose map is missing
C21_Witness ==
    /\ spc = "returned"
    /\ \E z \in DOMAIN zone_stats :
          /\ zone_stats[z].detected_pixels = 2500
          /\ zone_stats[z].total_pixels = 2600
          /\ zone_stats[z].area_m2 = 10000
          /\ zone_stats[z].area_ha.whole = 1
    /\ \E z \in thematic_maps : z \notin DOMAIN zone_stats

\* ======================================================================
\* Properties of the workflow (under SpecWorkflow)
\* ======================================================================
\* C22: the step in which a stage raises and the step of the except clause
\* leave every completed output as it is, and the exception never leaves
\* run_interactive_workflow.
C22_AbortKeepsOutputs ==
    /\ [][(wpc = "except" \/ wpc' = "except") => completed' = completed]_vars
    /\ [](wpc # "propagated")

\* the index pass raised after the four bands were normalized and merged,
\* and run_interactive_workflow returned
C22_Witness ==
    /\ wpc = "returned"
    /\ raised = [kind |-> "Exception", stage |-> "calculate_indices"]
    /\ \A u \in 1..config.departments : <<"extract_normalize_band", u>> \in completed
    /\ \A u \in 1..Len(MergeOrder) : <<"merge_band_files", u>> \in completed
    /\ <<"calculate_indices", 1>> \notin completed

\* the stages named by the claim, in the order it gives
ClaimStages ==
    <<"calculate_global_stats", "extract_normalize_band", "merge_band_files",
      "calculate_indices", "get_indices_statistics", "create_thematic_maps",
      "calculate_zone_statistics", "create_summary_report">>

InClaim(stage) == \E j \in 1..Len(ClaimStages) : ClaimStages[j] = stage

IsPrefix(a, b) == Len(a) <= Len(b) /\ \A j \in 1..Len(a) : a[j] = b[j]

\* C23: the stages started so far are, in order, the first stages of the
\* fixed order; every stage but the last started one has completed all its
\* inputs; once an exception is raised the stage that raised it stays the
\* last one started, and no output exists of a stage that was not started.
C23_StagesInOrder ==
    /\ IsPrefix(SelectSeq(trace, InClaim), ClaimStages)
    /\ \A j \in 1..(Len(trace) - 1) :
          \A u \in 1..Units(trace[j], config) : <<trace[j], u>> \in completed
    /\ raised.kind # "none" =>
          /\ wpc \in {"except", "returned"}
          /\ trace # << >>
          /\ trace[Len(trace)] = raised.stage
    /\ \A o \in completed : \E j \in 1..Len(trace) : trace[j] = o[1]

\* a run that went through all the stages and returned
C23_Witness ==
    /\ wpc = "returned"
    /\ raised.kind = "none"
    /\ SelectSeq(trace, InClaim) = ClaimStages
    /\ \A j \in 1..Len(trace) :
          \A u \in 1..Units(trace[j], config) : <<trace[j], u>> \in completed

\* ======================================================================
\* Properties of the threshold dialogue (under SpecDialogue)
\* ======================================================================
\* C24: however the dialogue ends, the value returned is the list of the
\* conditions entered so far, in entry order, and each of them names a key
\* of stats and one of the four comparators.
C24_ReturnsEnteredConditions ==
    dpc = "returned" =>
        /\ ~result.none
        /\ result.list = conditions
        /\ \A j \in 1..Len(result.list) :
              /\ result.list[j].index \in stats
              /\ result.list[j].operator \in {">", "<", ">=", "<="}

\* ======================================================================
\* Properties of the URL file reader (under SpecUrls)
\* ======================================================================
\* the last department header, and the last band header, before line p
DeptHeaders(p) == { q \in 1..(p - 1) : IsDepartment(StripLine[lines[q]]) }
BandHeaders(p) == { q \in 1..(p - 1) : IsBand(StripLine[lines[q]]) }

\* the URL lines to be filed under department d and band b
FiledLines(d, b) ==
    { p \in 1..Len(lines) :
        /\ IsUrl(StripLine[lines[p]])
        /\ DeptHeaders(p) # {} /\ BandHeaders(p) # {}
        /\ StripLine[lines[SetMax(DeptHeaders(p))]] = d
        /\ Upper(StripLine[lines[SetMax(BandHeaders(p))]]) = b }

RECURSIVE UrlsOf(_, _)
UrlsOf(P, p) ==
    IF p > Len(lines) THEN << >>
    ELSE IF p \in P THEN <<StripLine[lines[p]]>> \o UrlsOf(P, p + 1)
    ELSE UrlsOf(P, p + 1)

\* C25: load_urls_from_file never raises, and what it returns holds each
\* URL line under the last department header and the last band header that
\* precede it, in file order, and nothing else.
C25_UrlsFiledUnderHeaders ==
    /\ upc # "raised"
    /\ upc = "returned" =>
          \A d \in {"D073", "D038"}, b \in {"RVB", "IRC"} :
             IF d \in DOMAIN urls_data /\ b \in DOMAIN urls_data[d]
             THEN urls_data[d][b] = UrlsOf(FiledLines(d, b), 1)
             ELSE FiledLines(d, b) = {}

\* ======================================================================
\* Properties of the download (under SpecDownload)
\* ======================================================================
\* C26: when the transfer completed without error the local file is the
\* remote file, byte for byte, and a local file that already reached the
\* content-length announced by the server (> 0) is never requested.
C26_CompleteTransferIsExact ==
    /\ dlpc = "done" => /\ local.exists
                        /\ local.content = remote
    /\ (file_exists /\ total_size > 0 /\ downloaded >= total_size) => ~requested

\* ======================================================================
\* Properties of one call of process_files (under SpecOnce)
\* ======================================================================
\* the band numbers of the source files, as the claim maps them
ClaimMapping == <<"nir", "red", "green", "blue">>

\* the valid samples of source band k, over all existing input files
ValidOfBand(k) ==
    { v \in { files[ip[1]].pix[ip[2]][k] :
                ip \in { t \in ExistingFiles \X (1..MaxPix) :
                           t[2] <= Len(files[t[1]].pix) } } :
        0 < v /\ v < 65535 }

\* the normalization of source band k of file i used the minimum and the
\* maximum of the valid samples of source band k
NormalizedWithOwnStats(i, k) ==
    LET out == work[i][ClaimMapping[k]]
        valid == ValidOfBand(k)
    IN  /\ out.exists
        /\ \A p \in DOMAIN files[i].pix :
              LET v == files[i].pix[p][k]
              IN  out.data[p] =
                     IF 0 < v /\ v < 65535 /\ SetMax(valid) > SetMin(valid)
                     THEN F32Trunc(Rescale(v, SetMin(valid), SetMax(valid)))
                     ELSE 0

\* the index rasters are computed from the merged rasters of the logical
\* bands red, green, blue and nir, taken as R, G, B and NIR
IndicesFromOwnBands ==
    \A p \in CalcWritten : \A j \in DOMAIN IndexOrder :
        indices[IndexOrder[j]].data[p] =
           IndexValue(IndexOrder[j],
                      F32Div(merged["red"].pix[p][1], 65535),
                      F32Div(merged["green"].pix[p][1], 65535),
                      F32Div(merged["blue"].pix[p][1], 65535),
                      F32Div(merged["nir"].pix[p][1], 65535))

\* C27: when the normalization is over, band k of every input file was
\* normalized, under the name 1 = nir, 2 = red, 3 = green, 4 = blue, with
\* the statistics of the valid samples of band k; each merged band is made
\* of the normalized rasters of its own name, and the index pass takes
\* R, G, B and NIR from the merged rasters of red, green, blue and nir.
C27_BandsConsistent ==
    /\ (pc = "merge" /\ mb = 1) =>
          \A i \in ExistingFiles : \A k \in 1..4 : NormalizedWithOwnStats(i, k)
    /\ (pc = "indices") =>
          \A b \in merged_bands :
             /\ \A c \in DOMAIN band_files[b] : work[band_files[b][c]][b].exists
             /\ \A g \in UnionLo(b)..UnionHi(b) :
                   LET nz == { c \in Coverers(b, g) :
                                 InputValue(band_files[b][c], b, g) # 0 }
                   IN  MergedValue(b, g) =
                          IF nz = {} THEN 0
                          ELSE InputValue(band_files[b][SetMin(nz)], b, g)
    /\ (pc = "done") => IndicesFromOwnBands

\* a finished run over two files whose bands 1 and 2 have different
\* statistics, with a non-zero normalized value
C27_Witness ==
    /\ pc = "done"
    /\ Cardinality(ExistingFiles) = 2
    /\ CalcWritten # {}
    /\ global_stats["nir"] # global_stats["red"]
    /\ global_stats["nir"].max > global_stats["nir"].min
    /\ \E i \in ExistingFiles : \E p \in DOMAIN work[i]["nir"].data :
          work[i]["nir"].data[p] > 0

\* ======================================================================
\* Properties of repeated calls of process_files (under SpecReruns)
\* ======================================================================
\* C28: when the lists of normalized rasters go to the merge step, each
\* listed raster holds its source band rescaled with the global minimum and
\* maximum of this very call (and zeros when max <= min).
C28_MergedInputsUseRunStats ==
    (pc = "merge" /\ mb = 1) =>
       \A b \in BandNames : \A c \in DOMAIN band_files[b] :
          LET i == band_files[b][c]
              st == global_stats[b]
          IN  \A p \in DOMAIN files[i].pix :
                 LET v == SourceSample(i, b, p)
                 IN  work[i][b].data[p] =
                        IF 0 < v /\ v < 65535 /\ st.max > st.min
                        THEN F32Trunc(Rescale(v, st.min, st.max))
                        ELSE 0

\* ======================================================================
\* More properties of the normalization (under Spec)
\* ======================================================================
\* C29: with max > min, no valid source pixel (0 < v < 65535) of a band
\* normalized in the run is written as 0.
C29_ValidPixelNotZero ==
    \A ib \in RunOutputs :
       LET st == global_stats[ib[2]]
       IN  st.max > st.min =>
              \A k \in WrittenPositions(ib[1], ib[2]) :
                 LET v == SourceSample(ib[1], ib[2], k)
                 IN  (0 < v /\ v < 65535) => work[ib[1]][ib[2]].data[k] # 0


\* ======================================================================
\* Order of a zone's conditions (under SpecZone)
\* ======================================================================
\* the lists that hold the conditions of the zone in another order
Reordered ==
    { [c \in DOMAIN conditions |-> conditions[s[c]]] :
        s \in Permutations(DOMAIN conditions) }

\* pixel k of the map _create_zone_map writes for the list conds
MapPixel(conds, k) ==
    LET ref == Reference(conds)
        w == ((k - 1) \div ref.block) + 1
    IN  OutputBlock(conds, ref, w)[k - WinLo(ref, w) + 1]

\* C30: for any zone and any set of available index rasters, giving the
\* zone's conditions in another order changes neither whether
\* create_thematic_maps produces a map for the zone nor any pixel value of
\* that map.
C30_ConditionOrderIrrelevant ==
    (zpc = "next" /\ conditions # << >>) =>
        \A q \in Reordered :
           /\ (zone_name \in thematic_maps) <=> ~NotFound(q[1].index)
           /\ (zone_name \in thematic_maps /\ ~NotFound(q[1].index)) =>
                 \A k \in DOMAIN zone_map.data : zone_map.data[k] = MapPixel(q, k)

====
